---- MODULE Spec2Model ----
(***************************************************************************)
(* A fixed-point model of WaterSimulation (src/script.js): the droplet     *)
(* emitter, the droplet physics, the reservoir, the 1-D surface field and  *)
(* the whirlpool drain, driven by the calls a controller can make.         *)
(*                                                                         *)
(* Units.  The code computes in IEEE doubles; the model computes in        *)
(* integers:                                                               *)
(*   time          milliseconds                (dt = 0.05 s  is 50)        *)
(*   x, y, r       1/1000 px                   (PosScale)                  *)
(*   vx, vy, v[i]  px/s                                                    *)
(*   h[i]          1/1000 px                                               *)
(*   volumes       1/10000 px^2                (VolScale)                  *)
(*   strength      1/10000                     (StrScale)                  *)
(*   accumulator   1/1000 droplet              (AccScale)                  *)
(*   drainRate     volume units per DrainDurationMs (volume / 2.2 s)       *)
(* Products and quotients the code rounds to the nearest double are        *)
(* truncated toward zero here.  A field sample is an integer in range, or  *)
(* NaNV (the double NaN), or BigV (a double outside the modelled range,    *)
(* possibly infinite: its value is not known to the model).                *)
(***************************************************************************)
EXTENDS Integers, Sequences, FiniteSets, TLC

\* ------------------------------------------------------------ bounds
\* Spec: calls other than update (resize, setTargetFillHeight, setEmission,
\* reset, startDraining) in one explored run, and update calls in one run.
MaxConfigCalls == 3
MaxTicks == 3
\* FillSpec: setEmission / setTargetFillHeight calls and update calls in a run.
MaxFillConfigs == 2
MaxFillTicks == 24
\* DrainSpec: update calls before startDraining; the drain clock stops
\* counting at DrainClockCap milliseconds.
MaxDrainFillTicks == 3
DrainClockCap == 2400
\* CapSpec: update calls in a run.
MaxCapTicks == 112
\* ClampSpec: update calls in a run.
MaxClampTicks == 4
\* ResampleSpec: resize calls in a run.
MaxResizes == 2
MaxImpulses == 2
\* TimerSpec: clicks and animation frames in a run.
MaxClicks == 3
MaxFrames == 3
MaxVisibilityChanges == 1
MaxResetTicks == 3
MaxResetCalls == 2
MaxPartFillFrames == 1
\* performance.now() is kept modulo ClockWrap milliseconds and the ids of
\* requestAnimationFrame modulo FrameIdWrap: every time stamp is read within
\* one frame period of being written, and far fewer callbacks are pending
\* at a time
ClockWrap == 4 * 500
FrameIdWrap == 16
\* Largest modelled magnitude of a height sample (1/1000 px) and of a
\* velocity sample (px/s); beyond it the sample is BigV.
HMax == 500000000
VMax == 20000000

\* ------------------------------------------------------------ scales
PosScale == 10 * 100
VolScale == 100 * 100
StrScale == 100 * 100
AccScale == 10 * 100
\* the largest integer of the arithmetic
MaxInt == 2147483646 + 1
NaNV == 0 - 2147483647
BigV == 0 - 2147483646

\* ------------------------------------------------------------ program constants
dropsPerSecond == 260
maxDroplets == 1400
streamWidth == 10
streamWobbleAmp == 18
gravity == 5200
\* airDrag = 0.995 = airDragNum / airDragDen
airDragNum == 199
airDragDen == 200
waveSpeed == 235
\* waveDamping = 1.35 /s, in 1/100000 per millisecond
waveDampingE5 == 135
\* surfaceViscosity = 0.02 = 1/surfaceViscosityInv
surfaceViscosityInv == 50
minSurfaceN == 96
surfaceSpacing == 3
\* dt is clamped to [0, 0.05] s
maxDt == 50
\* the drain empties the reservoir over 2.2 s
DrainDurationMs == 2200
\* whirlpool strength: seeded at 0.6, ramps 0.9 per second up to 3.5
strengthSeed == 6000
strengthRampPerMs == 9
strengthCap == 35000
sinkGain == 1600
sinkReach == 28
impulseCap == 6500
fallThroughMargin == 120
whirlpoolDepth == 50

\* exp(-(k*k)/(2*9*9)) * 1000 for k = 0..28 (the sink's Gaussian weights)
sinkWeight ==
  << 1000, 994, 976, 946, 906, 857, 801, 739, 674, 607, 539, 474, 411, 352,
     298, 249, 206, 168, 135, 108, 85, 66, 50, 38, 29, 21, 15, 11, 8 >>

\* ------------------------------------------------------------ arithmetic
Min(a, b) == IF a <= b THEN a ELSE b
Max(a, b) == IF a >= b THEN a ELSE b
Abs(a) == IF a >= 0 THEN a ELSE 0 - a

RECURSIVE GCD(_, _)
GCD(a, b) == IF b = 0 THEN a ELSE GCD(b, a % b)

\* a * n / d truncated toward zero, for n >= 0, d > 0, d * n < 2^31, computed
\* without an intermediate product beyond 32 bits; BigV when the quotient
\* is beyond lim.
MulDiv(a, n, d, lim) ==
  LET m == Abs(a)
      q == m \div d
      r == m % d
  IN  IF n = 0 THEN 0
      ELSE IF q > lim \div n THEN BigV
      ELSE LET p == q * n + (r * n) \div d
           IN  IF p > lim THEN BigV ELSE IF a >= 0 THEN p ELSE 0 - p

\* ceiling of a * n / d for a, n >= 0, d > 0
MulDivCeil(a, n, d) ==
  LET q == a \div d
      r == a % d
  IN  q * n + (r * n + d - 1) \div d

\* floor of the square root of n >= 0, searched in lo..hi
RECURSIVE ISqrt(_, _, _)
ISqrt(n, lo, hi) ==
  IF lo >= hi THEN lo
  ELSE LET mid == (lo + hi + 1) \div 2
       IN  IF mid * mid <= n THEN ISqrt(n, mid, hi) ELSE ISqrt(n, lo, mid - 1)

\* ------------------------------------------------------------ doubles
IsNum(a) == a # NaNV /\ a # BigV
\* a value that left the modelled range
Norm(a, lim) == IF a > lim \/ a < 0 - lim THEN BigV ELSE a
\* a + b
FAdd(a, b, lim) ==
  IF a = NaNV \/ b = NaNV THEN NaNV
  ELSE IF a = BigV \/ b = BigV THEN BigV
  ELSE Norm(a + b, lim)
\* a * n / d
FMul(a, n, d, lim) ==
  IF a = NaNV THEN NaNV
  ELSE IF a = BigV THEN BigV
  ELSE MulDiv(a, n, d, lim)
\* Number.isFinite(a), as far as the model knows: a BigV sample is outside
\* the modelled range and may or may not be finite.
IsFinite(a) == IsNum(a)

\* a * n / d rounded to the nearest unit, for 0 <= n <= d, d > 0: a product
\* of a double by a weight in [0, 1], which the arithmetic rounds
MulDivRound(a, n, d) ==
  LET m == Abs(a)
      p == (m \div d) * n + ((m % d) * n + d \div 2) \div d
  IN  IF a >= 0 THEN p ELSE 0 - p

\* a * (1 - t) + b * t with t = num / den: two products, each rounded, then
\* their sum
Lerp(a, b, num, den, lim) ==
  IF a = NaNV \/ b = NaNV THEN NaNV
  ELSE IF a = BigV \/ b = BigV THEN BigV
  ELSE FAdd(MulDivRound(a, den - num, den), MulDivRound(b, num, den), lim)

\* ------------------------------------------------------------ inputs
\* window.innerWidth x window.innerHeight (px) at construction and on resize:
\* a scene wider than 3 * 96 px (100 samples), a narrow one, and one of
\* width 0
Scenes ==
  { [w |-> 300, ht |-> 40], [w |-> 20, ht |-> 30], [w |-> 0, ht |-> 40] }
\* setTargetFillHeight arguments (px)
TargetInputs == { 0, 20 }
\* setEmission arguments (volume units per second): a negative rate and a
\* rate that fills a scene within a few ticks
EmissionInputs == { 0 - VolScale, 26000 * VolScale }
\* deltaTime arguments (ms): at the clamp and over it
DtInputs == { 50, 120 }
\* Math.random() returns one of these (percent of 1); a seed picks where in
\* the cycle the first call of a tick starts
RandomDraws == << 0, 99, 50 >>
\* what one update reads from its environment: the stream wobble computed
\* from performance.now() (1/1000 px, within +-(18 + 18 * 0.35) px), the
\* seed of Math.random(), and the outcome of a comparison against BigV
EnvInputs ==
  { [wob |-> 24300, seed |-> 0, big |-> TRUE],
    [wob |-> 0 - 24300, seed |-> 1, big |-> FALSE] }
\* the stream wobble at two readings of performance.now() (1/1000 px)
Wobbles == { 24300, 0 - 24300 }
\* FillSpec, DrainSpec, CapSpec: the scene of the run (px); CapSpec's is tall
\* enough for 1400 droplets to be in flight at once
RunScene == [w |-> 285, ht |-> 40]
\* TimerSpec: the window (px), the durations entered (s), the time between
\* two animation frames (ms) and the environment of every update
TimerScene == [w |-> 20, ht |-> 30]
TotalInputs == { 0, 1 }
FramePeriodMs == 500
TimerEnv == [wob |-> 0, seed |-> 2, big |-> FALSE]
\* RippleSpec: the scenes, the positions (1/1000 px) and the strengths (px/s)
\* of the impulses
RippleScenes == { [w |-> 285, ht |-> 40], [w |-> 20, ht |-> 30] }
RippleXs == { 0, 300, 2900, 10000, 20000, 142500, 285000 }
RippleStrengths == { 200, 6500 }
CapScene == [w |-> 285, ht |-> 70000]
\* FillSpec: the frame period of a run (ms) (every update of a run gets the
\* same deltaTime), the targets, and the environment of every update
FrameInputs == { 12, 50 }
FillTargets == { 2, 40 }
FillEnv == [wob |-> 24300, seed |-> 0, big |-> TRUE]
\* DrainSpec: the frame period (ms) and the emission rates
DrainFrames == { 50 }
DrainEmissions == { 26000 * VolScale }
\* CapSpec: the frame period (ms), the emission rates, the environment
CapFrames == { 50 }
CapEmissions == { 130 * VolScale, 2600 * VolScale }
CapEnv == [wob |-> 0, seed |-> 2, big |-> FALSE]
\* ClampSpec: deltaTime arguments (ms) below the clamp's range, inside it and
\* above it, and the environment of every update
ClampInputs == { 0 - 20, 30, 120 }
ClampEnv == [wob |-> 0 - 24300, seed |-> 1, big |-> FALSE]
\* ResampleSpec: the scenes (96, 100 and 333 samples) and the shapes of the
\* height field a run starts from
ResampleScenes ==
  { [w |-> 285, ht |-> 40], [w |-> 300, ht |-> 40], [w |-> 999, ht |-> 40] }
FieldShapes == { "flat", "ramp", "fall", "spike", "ripple" }

\* ------------------------------------------------------------ state
VARIABLES
  width, height,            \* scene size (px)
  droplets,                 \* falling droplets, in list order
  waterVolume, targetFillHeight, targetVolume, volumePerSecond,
  surfaceN, h, v,           \* the surface field
  dropSpawnAccumulator, streamX,
  isDraining, whirlpoolActive, whirlpoolCenter, whirlpoolStrength, drainRate,
  lastOp,                   \* history: the call that produced this state
  nConfig, nTicks,          \* history: calls made so far
  pre,                      \* history: what the last call started from and did
  hist,                     \* history: totals since construction or reset
  tock,                     \* history: flips at every update
  ctl,                      \* the TimerController and the browser's queues
  variant                   \* the particle-based variant: simulation and controller

simVars ==
  << width, height, droplets, waterVolume, targetFillHeight, targetVolume,
     volumePerSecond, surfaceN, h, v, dropSpawnAccumulator, streamX,
     isDraining, whirlpoolActive, whirlpoolCenter, whirlpoolStrength,
     drainRate >>
vars == << simVars, lastOp, nConfig, nTicks, pre, hist, tock, ctl, variant >>

\* the simulation object: its fields, with the history kept along
Sim ==
  [width |-> width, height |-> height, droplets |-> droplets,
   waterVolume |-> waterVolume, targetFillHeight |-> targetFillHeight,
   targetVolume |-> targetVolume, volumePerSecond |-> volumePerSecond,
   surfaceN |-> surfaceN, h |-> h, v |-> v,
   dropSpawnAccumulator |-> dropSpawnAccumulator, streamX |-> streamX,
   isDraining |-> isDraining, whirlpoolActive |-> whirlpoolActive,
   whirlpoolCenter |-> whirlpoolCenter,
   whirlpoolStrength |-> whirlpoolStrength, drainRate |-> drainRate,
   lastOp |-> lastOp, hist |-> hist, pre |-> pre, tock |-> tock]

\* ------------------------------------------------------------ geometry
\* the array arr with every element computed (an array literal)
Arr(arr) == SubSeq(arr, 1, Len(arr))
Zeros(n) == Arr([i \in 1..n |-> 0])

\* initSurfaceField: the sample count for a scene width
SurfaceCount(w) == Max(minSurfaceN, w \div surfaceSpacing)

\* getWaterHeight (1/1000 px)
GetWaterHeight(w, ht, tfh, vol) ==
  IF w <= 0 THEN 0
  ELSE Min((IF tfh # 0 THEN tfh ELSE ht) * PosScale,
           vol \div (w * (VolScale \div PosScale)))

\* getBaseSurfaceY (1/1000 px)
GetBaseSurfaceY(w, ht, tfh, vol) == ht * PosScale - GetWaterHeight(w, ht, tfh, vol)

\* xToIndex: 0-based index of the sample at or left of x
XToIndex(x, w, n) ==
  LET raw == IF w <= 1 THEN 0 ELSE (x * (n - 1)) \div (w * PosScale)
  IN  Max(0, Min(n - 1, raw))

\* this.h[i] ?? 0 for a 0-based index i
At(arr, i) == IF i >= 0 /\ i < Len(arr) THEN arr[i + 1] ELSE 0

\* sampleSurfaceOffset (1/1000 px).  With width 0 the code divides by zero
\* and the interpolation weight is NaN.
SampleSurfaceOffset(x, w, n, hh) ==
  IF n <= 1 THEN 0
  ELSE IF w = 0 THEN NaNV
  ELSE LET num == x * (n - 1)
           den == w * PosScale
           i0 == num \div den
           i1 == Min(n - 1, i0 + 1)
           t == ((num % den) * 1000) \div den
       IN  Lerp(At(hh, i0), At(hh, i1), t, 1000, HMax)

\* getSurfaceY (1/1000 px, or NaNV, or BigV)
GetSurfaceY(x, w, ht, tfh, vol, n, hh) ==
  FAdd(GetBaseSurfaceY(w, ht, tfh, vol), SampleSurfaceOffset(x, w, n, hh), MaxInt)

\* addRippleImpulse: the velocity array after an impulse of s px/s at x
RippleWeight(k) ==
  IF k = 0 THEN 100 ELSE IF k = 1 THEN 75 ELSE IF k = 2 THEN 45
  ELSE IF k = 3 THEN 20 ELSE 0
AddRippleImpulse(vv, x, s, w, n) ==
  LET idx == XToIndex(x, w, n)
  IN  Arr([j \in 1..Len(vv) |->
             LET k == Abs((j - 1) - idx)
             IN  IF k <= 3
                 THEN FAdd(vv[j], MulDiv(s, RippleWeight(k), 100, VMax), VMax)
                 ELSE vv[j]])

\* ------------------------------------------------------------ droplets
\* the k-th Math.random() of a tick (percent)
Rnd(seed, k) == RandomDraws[((seed + k) % Len(RandomDraws)) + 1]

\* the radius of a droplet of volume vol: max(1.5, min(5.5, sqrt(vol/PI) * 9.5)),
\* r * r = 9.5 * 9.5 / PI * vol = 28.728 * vol
DropletRadius(vol) ==
  IF vol >= 10531 THEN 5500
  ELSE IF vol <= 783 THEN 1500
  ELSE Max(1500, Min(5500, ISqrt((vol * 28728) \div 10, 1000, 6000)))

\* spawnDroplet past its cap test: the droplet pushed, given the index of the
\* first Math.random() call it makes
NewDroplet(seed, k, vps, sx, w) ==
  LET meanDropVolume == vps \div Max(1, dropsPerSecond)
      vol == Max(1, MulDiv(meanDropVolume, 650 + 7 * Rnd(seed, k), 1000, MaxInt))
      jitter == (Rnd(seed, k + 1) - 50) * streamWidth * 9
      x == Max(0, Min(w * PosScale, sx + jitter))
      y == 0 - 12 * PosScale - Rnd(seed, k + 2) * 400
      vx == MulDiv(Rnd(seed, k + 3) - 50, 20, 100, MaxInt)
  IN  [x |-> x, y |-> y, px |-> x, py |-> y, vx |-> vx, vy |-> 0,
       r |-> DropletRadius(vol), vol |-> vol]

\* a spawnDroplet without its cap test: a faulty variant, for sensitivity
SpawnDroplets_Uncapped(ds, requests, seed, vps, sx, w) ==
  ds \o Arr([j \in 1..requests |-> NewDroplet(seed, 4 * (j - 1), vps, sx, w)])

\* spawnDroplet, called requests times in a row: the list afterwards
SpawnDroplets(ds, requests, seed, vps, sx, w) ==
  LET room == Max(0, maxDroplets - Len(ds))
      m == Min(requests, room)
  IN  ds \o Arr([j \in 1..m |-> NewDroplet(seed, 4 * (j - 1), vps, sx, w)])

\* a droplet that gains speed but does not move down: a faulty variant, for
\* sensitivity
MoveDroplet_Hovering(d, dt, w) ==
  [d EXCEPT !.px = d.x, !.py = d.y,
            !.vy = MulDiv(d.vy + (gravity * dt) \div 1000, airDragNum, airDragDen, MaxInt)]

\* update, lines 268-286: one droplet's free fall and side-boundary contact
MoveDroplet(d, dt, w) ==
  LET vy1 == MulDiv(d.vy + (gravity * dt) \div 1000, airDragNum, airDragDen, MaxInt)
      vx1 == MulDiv(d.vx, airDragNum, airDragDen, MaxInt)
      x1 == d.x + vx1 * dt
      y1 == d.y + vy1 * dt
      left == x1 < d.r
      right == ~left /\ x1 > w * PosScale - d.r
  IN  [d EXCEPT !.px = d.x, !.py = d.y, !.vy = vy1,
                !.vx = IF left \/ right THEN 0 - MulDiv(vx1, 35, 100, MaxInt) ELSE vx1,
                !.x = IF left THEN d.r ELSE IF right THEN w * PosScale - d.r ELSE x1,
                !.y = y1]

\* update, lines 266-286, for every droplet of the list
MoveDroplets(ds, dt, w) ==
  Arr([i \in 1..Len(ds) |-> MoveDroplet(ds[i], dt, w)])

\* a >= b for a number a and a double b; big is the outcome when b is BigV
GreaterEq(a, b, big) ==
  IF b = NaNV THEN FALSE ELSE IF b = BigV THEN big ELSE a >= b

\* the impulse of an impact: min(6500, vy * 1.25 + vol * 220)
ImpactImpulse(d) ==
  Min(impulseCap, (d.vy * 5) \div 4 + (d.vol * 11) \div 500)

\* the reservoir after a droplet of volume vol lands
AddVolume(cur, vol, tv) ==
  IF tv # 0 THEN Min(tv, cur + vol) ELSE cur + vol

\* an impact that adds the volume and the impulse but leaves the droplet in
\* the list: a faulty variant, for sensitivity
ResolveDroplet_KeepsLanded(st, ds, i, w, ht, tfh, tv, n, hh, big) ==
  LET d == ds[i]
      surfaceY == GetSurfaceY(d.x, w, ht, tfh, st.vol, n, hh)
  IN  IF GreaterEq(d.y + d.r, surfaceY, big)
      THEN [st EXCEPT !.vol = AddVolume(st.vol, d.vol, tv),
                      !.v = AddRippleImpulse(st.v, d.x, ImpactImpulse(d), w, n),
                      !.landedVol = st.landedVol + d.vol,
                      !.clamped = st.clamped + (st.vol + d.vol - AddVolume(st.vol, d.vol, tv))]
      ELSE IF d.y > (ht + fallThroughMargin) * PosScale
      THEN [st EXCEPT !.discarded = st.discarded \cup {i},
                      !.discardedVol = st.discardedVol + d.vol]
      ELSE st

\* a discard that pours the droplet into the reservoir: a faulty variant, for
\* sensitivity
ResolveDroplet_DiscardAdds(st, ds, i, w, ht, tfh, tv, n, hh, big) ==
  LET d == ds[i]
      surfaceY == GetSurfaceY(d.x, w, ht, tfh, st.vol, n, hh)
  IN  IF GreaterEq(d.y + d.r, surfaceY, big)
      THEN [st EXCEPT !.vol = AddVolume(st.vol, d.vol, tv),
                      !.v = AddRippleImpulse(st.v, d.x, ImpactImpulse(d), w, n),
                      !.landed = st.landed \cup {i},
                      !.landedVol = st.landedVol + d.vol,
                      !.clamped = st.clamped + (st.vol + d.vol - AddVolume(st.vol, d.vol, tv))]
      ELSE IF d.y > (ht + fallThroughMargin) * PosScale
      THEN [st EXCEPT !.vol = AddVolume(st.vol, d.vol, tv),
                      !.discarded = st.discarded \cup {i},
                      !.discardedVol = st.discardedVol + d.vol]
      ELSE st

\* update, lines 288-303, for the moved droplet number i: st carries the
\* reservoir volume, the velocity array, and what left the list so far
ResolveDroplet(st, ds, i, w, ht, tfh, tv, n, hh, big) ==
  LET d == ds[i]
      surfaceY == GetSurfaceY(d.x, w, ht, tfh, st.vol, n, hh)
  IN  IF GreaterEq(d.y + d.r, surfaceY, big)
      THEN [st EXCEPT !.vol = AddVolume(st.vol, d.vol, tv),
                      !.v = AddRippleImpulse(st.v, d.x, ImpactImpulse(d), w, n),
                      !.landed = st.landed \cup {i},
                      !.landedVol = st.landedVol + d.vol,
                      !.clamped = st.clamped + (st.vol + d.vol - AddVolume(st.vol, d.vol, tv))]
      ELSE IF d.y > (ht + fallThroughMargin) * PosScale
      THEN [st EXCEPT !.discarded = st.discarded \cup {i},
                      !.discardedVol = st.discardedVol + d.vol]
      ELSE st

\* the droplet loop over indices lo..hi, from the last index down to the first
\* (the upper half is computed to a value before the lower half starts)
RECURSIVE ResolveRange(_, _, _, _, _, _, _, _, _, _, _)
ResolveRange(st, ds, lo, hi, w, ht, tfh, tv, n, hh, big) ==
  IF lo > hi THEN st
  ELSE IF lo = hi THEN ResolveDroplet(st, ds, lo, w, ht, tfh, tv, n, hh, big)
  ELSE LET mid == (lo + hi) \div 2
       IN  CHOOSE res \in
             { ResolveRange(upper, ds, lo, mid, w, ht, tfh, tv, n, hh, big) :
                 upper \in { ResolveRange(st, ds, mid + 1, hi, w, ht, tfh, tv, n, hh, big) } } :
             TRUE

\* the volume of the droplets lo..hi of ds
RECURSIVE SumVol(_, _, _)
SumVol(ds, lo, hi) ==
  IF lo > hi THEN 0
  ELSE IF lo = hi THEN ds[lo].vol
  ELSE LET mid == (lo + hi) \div 2
       IN  SumVol(ds, lo, mid) + SumVol(ds, mid + 1, hi)

\* the elements of ds whose index is not in gone, in order
RECURSIVE Keep(_, _, _, _)
Keep(ds, gone, lo, hi) ==
  IF lo > hi THEN << >>
  ELSE IF lo = hi THEN (IF lo \in gone THEN << >> ELSE << ds[lo] >>)
  ELSE LET mid == (lo + hi) \div 2
       IN  Keep(ds, gone, lo, mid) \o Keep(ds, gone, mid + 1, hi)

\* ------------------------------------------------------------ surface field
\* update, lines 306-318: the whirlpool sink added to the velocity array
ApplySink(vv, cx, strength, dt, w, n) ==
  LET idx == XToIndex(cx, w, n)
      gain == (sinkGain \div 100) * strength
  IN  Arr([j \in 1..Len(vv) |->
             LET k == Abs((j - 1) - idx)
             IN  IF k <= sinkReach
                 THEN FAdd(vv[j],
                           0 - MulDiv((gain * sinkWeight[k + 1]) \div 1000, dt,
                                      100000, VMax),
                           VMax)
                 ELSE vv[j]])

\* exp(-waveDamping * dt) in 1/10000, by its series to the third power
Damp(dt) ==
  LET x == waveDampingE5 * dt
  IN  (100000 - x + (x * x) \div 200000 - (((x * x) \div 1000) * x) \div 60000000) \div 10

\* h[i-1] + h[i+1] - 2 h[i]
Curvature(l, c, r) ==
  IF l = NaNV \/ c = NaNV \/ r = NaNV THEN NaNV
  ELSE IF l = BigV \/ c = BigV \/ r = BigV THEN BigV
  ELSE l + r - 2 * c

\* c2 * dt / 10^6 and 1 / (dx * dx) = (n - 1)^2 / width^2 as reduced
\* fractions (width > 0)
WaveFactors(dt, w, n) ==
  LET c2dt == waveSpeed * waveSpeed * dt
      g1 == GCD(1000000, c2dt)
      g2 == GCD(n - 1, w)
      a == (n - 1) \div g2
      b == w \div g2
  IN  [n1 |-> c2dt \div g1, d1 |-> 1000000 \div g1, n2 |-> a * a, d2 |-> b * b]

\* c2 * lap * dt (px/s) for a curvature (1/1000 px); with width 0 the code
\* divides by dx * dx = 0
WaveKick(curv, dt, w, f) ==
  IF w = 0
  THEN (IF curv = NaNV \/ curv = 0 \/ dt = 0 THEN NaNV ELSE BigV)
  ELSE FMul(FMul(curv, f.n1, f.d1, MaxInt), f.n2, f.d2, VMax)

\* stepSurface: the field after one timestep
StepSurface(hh, vv, n, w, dt) ==
  IF n <= 2 THEN [h |-> hh, v |-> vv]
  ELSE
    LET f == IF w = 0 THEN [n1 |-> 0, d1 |-> 1, n2 |-> 0, d2 |-> 1]
             ELSE WaveFactors(dt, w, n)
        damp == Damp(dt)
        v2 == Arr([i \in 1..n |->
                 LET v1 == IF i = 1 \/ i = n THEN vv[i]
                           ELSE FAdd(vv[i],
                                     WaveKick(Curvature(hh[i - 1], hh[i], hh[i + 1]),
                                              dt, w, f),
                                     VMax)
                 IN  FMul(v1, damp, 10000, VMax)])
        h1 == Arr([i \in 1..n |-> FAdd(hh[i], FMul(v2[i], dt, 1, HMax), HMax)])
        tmp == Arr([i \in 1..n |->
                  IF i = 1 \/ i = n THEN h1[i]
                  ELSE FAdd(FMul(h1[i], surfaceViscosityInv - 1, surfaceViscosityInv, HMax),
                            FMul(FAdd(h1[i - 1], h1[i + 1], MaxInt), 1,
                                 2 * surfaceViscosityInv, HMax),
                            HMax)])
    IN  [h |-> tmp, v |-> v2]

\* a resampling that comes out one sample short: a faulty variant, for
\* sensitivity
Resample_Short(old, oldN, n) == Zeros(n - 1)

\* a resampling that takes the sample to the left and does not interpolate:
\* a faulty variant, for sensitivity
Resample_Nearest(old, oldN, n) ==
  Arr([i \in 1..n |-> At(old, ((i - 1) * (oldN - 1)) \div (n - 1))])

\* resize, lines 85-94: an array resampled from oldN samples to n samples
Resample(old, oldN, n) ==
  Arr([i \in 1..n |->
         LET num == (i - 1) * (oldN - 1)
             i0 == num \div (n - 1)
             i1 == Min(oldN - 1, i0 + 1)
         IN  Lerp(At(old, i0), At(old, i1), num % (n - 1), n - 1, MaxInt)])

\* a height field (1/1000 px) of n samples of a given shape: constant, a
\* rising ramp, a falling ramp through 0, one raised sample, and an
\* alternation
FieldShape(kind, n) ==
  Arr([i \in 1..n |->
         IF kind = "flat" THEN 12345
         ELSE IF kind = "ramp" THEN 1000 + 517 * (i - 1)
         ELSE IF kind = "fall" THEN 20000 - 733 * (i - 1)
         ELSE IF kind = "spike" THEN (IF i = n \div 2 THEN 60000 ELSE 0)
         ELSE (IF i % 2 = 0 THEN 3001 ELSE 0 - 2999)])

\* the least and the greatest of the samples lo..hi of f
RECURSIVE FieldMin(_, _, _)
FieldMin(f, lo, hi) ==
  IF lo >= hi THEN f[lo]
  ELSE LET mid == (lo + hi) \div 2
       IN  Min(FieldMin(f, lo, mid), FieldMin(f, mid + 1, hi))
RECURSIVE FieldMax(_, _, _)
FieldMax(f, lo, hi) ==
  IF lo >= hi THEN f[lo]
  ELSE LET mid == (lo + hi) \div 2
       IN  Max(FieldMax(f, lo, mid), FieldMax(f, mid + 1, hi))

\* f is constant or a linear ramp: equal steps between neighbours
IsRamp(f) ==
  \A i \in 2..(Len(f) - 1) : f[i + 1] - f[i] = f[i] - f[i - 1]

\* ------------------------------------------------------------ operations
\* what a call that is no update records in pre: the call before it, and
\* the volume, the drain flag, the droplet count and the sample count it
\* started from
NoTick(op) ==
  [op |-> op, prev |-> lastOp, vol |-> waterVolume, draining |-> isDraining,
   count |-> Len(droplets), n |-> surfaceN, inFlight |-> 0, requests |-> 0,
   landed |-> 0, landedVol |-> 0, discarded |-> 0, discardedVol |-> 0,
   clamped |-> 0, dt |-> 0]

\* 1/PartScale px: the unit of length of the particle-based variant
PartScale == 10000

\* the particle-based variant after construction, in a window of w x ht px:
\* its WaterSimulation and the fields of its TimerController.  callback is
\* the function the pending animation frame will call.
PartConstructed(w, ht) ==
  [particles |-> << >>, targetFillHeight |-> 0, currentFillHeight |-> 0,
   isDraining |-> FALSE, whirlpoolActive |-> FALSE,
   whirlpoolCenter |-> [x |-> 0, y |-> 0], whirlpoolStrength |-> 0,
   width |-> w * PartScale, height |-> ht * PartScale,
   totalSeconds |-> 0, remainingMs |-> 0, isRunning |-> FALSE,
   wakeLock |-> FALSE, awaiting |-> FALSE, callback |-> "none",
   seed |-> 0, kick |-> 0, frames |-> 0, op |-> "construct"]

\* TimerController's constructor (timer fields), the page as reset() lays it
\* out (start button shown, pause and reset buttons and the completion
\* overlay hidden), and the browser: its clock (ms), the animation-frame
\* callbacks requested for the next frame, those of the frame in progress
\* still to run, and the start() calls suspended at their await.  History:
\* the update calls made by the callbacks of the frame in progress, whether
\* reset() was the last of start() and reset() to be called, and the clicks
\* and frames so far.
TimerConstructed ==
  [totalSeconds |-> 0, remainingMs |-> 0, isRunning |-> FALSE,
   isPaused |-> FALSE, intervalId |-> 0, lastTime |-> 0, wakeLock |-> FALSE,
   startShown |-> TRUE, timerShown |-> FALSE, overlay |-> FALSE,
   now |-> 0, nextId |-> 1, pending |-> << >>, due |-> << >>, awaiting |-> 0,
   visibility |-> 0, reacquiring |-> 0,
   tickUpdates |-> 0, afterReset |-> FALSE, clicks |-> 0, frames |-> 0,
   op |-> "construct"]

\* the constructor in a window of w x ht px: every field at its initial
\* value, then resize()
Constructed(w, ht) ==
  /\ width = w
  /\ height = ht
  /\ droplets = << >>
  /\ waterVolume = 0
  /\ targetFillHeight = 0
  /\ targetVolume = 0
  /\ volumePerSecond = 0
  /\ surfaceN = SurfaceCount(w)
  /\ h = Zeros(SurfaceCount(w))
  /\ v = Zeros(SurfaceCount(w))
  /\ dropSpawnAccumulator = 0
  /\ streamX = w * 550
  /\ isDraining = FALSE
  /\ whirlpoolActive = FALSE
  /\ whirlpoolCenter = [x |-> 0, y |-> 0]
  /\ whirlpoolStrength = 0
  /\ drainRate = 0
  /\ lastOp = "construct"
  /\ nConfig = 0
  /\ nTicks = 0
  /\ pre = [op |-> "construct", prev |-> "construct", vol |-> 0,
            draining |-> FALSE, count |-> 0, n |-> 0, inFlight |-> 0,
            requests |-> 0, landed |-> 0, landedVol |-> 0, discarded |-> 0,
            discardedVol |-> 0, clamped |-> 0, dt |-> 0]
  /\ hist = [spawned |-> 0, count |-> 0, skipped |-> 0, emitMs |-> 0,
             drainMs |-> 0 - 1, frame |-> 0]
  /\ tock = FALSE
  /\ ctl = TimerConstructed
  /\ variant = PartConstructed(w, ht)

Init == \E s \in Scenes : Constructed(s.w, s.ht)

\* resize(), with the window now newWidth x newHeight
ResizedDroplet(d, newWidth, oldWidth) ==
  LET scaled == MulDiv(d.x, newWidth, Max(1, oldWidth), MaxInt)
  IN  [d EXCEPT !.x = Max(d.r, Min(newWidth * PosScale - d.r, scaled))]

\* a resize that leaves targetVolume alone: a faulty variant, for sensitivity
ResizedTargetVolume_Stale(newWidth, tfh, tv) == tv

\* resize, lines 79-81: targetVolume for the new width
ResizedTargetVolume(newWidth, tfh, tv) ==
  IF tfh > 0 THEN newWidth * tfh * VolScale ELSE tv

Resize(newWidth, newHeight) ==
  LET oldN == surfaceN
      oldWidth == IF width # 0 THEN width ELSE newWidth
      n == SurfaceCount(newWidth)
      resample == oldN > 0 /\ Len(h) = oldN
  IN  /\ width' = newWidth
      /\ height' = newHeight
      /\ targetVolume' = ResizedTargetVolume(newWidth, targetFillHeight,
                                             targetVolume)
      /\ surfaceN' = n
      /\ h' = IF resample THEN Resample(h, oldN, n) ELSE Zeros(n)
      /\ v' = IF resample THEN Resample(v, oldN, n) ELSE Zeros(n)
      /\ droplets' = Arr([i \in 1..Len(droplets) |->
                            ResizedDroplet(droplets[i], newWidth, oldWidth)])
      /\ streamX' = newWidth * 550
      /\ lastOp' = "resize"
      /\ pre' = NoTick("resize")
      /\ UNCHANGED << waterVolume, targetFillHeight, volumePerSecond,
                      dropSpawnAccumulator, isDraining, whirlpoolActive,
                      whirlpoolCenter, whirlpoolStrength, drainRate, hist, tock >>

\* setTargetFillHeight(height)
SetTargetFillHeight(ht) ==
  /\ targetFillHeight' = ht
  /\ targetVolume' = width * ht * VolScale
  /\ lastOp' = "setTargetFillHeight"
  /\ pre' = NoTick("setTargetFillHeight")
  /\ UNCHANGED << width, height, droplets, waterVolume, volumePerSecond,
                  surfaceN, h, v, dropSpawnAccumulator, streamX, isDraining,
                  whirlpoolActive, whirlpoolCenter, whirlpoolStrength, drainRate,
                  hist, tock >>

\* setEmission(volumePerSecond)
SetEmission(vps) ==
  /\ volumePerSecond' = Max(0, vps)
  /\ lastOp' = "setEmission"
  /\ pre' = NoTick("setEmission")
  /\ UNCHANGED << width, height, droplets, waterVolume, targetFillHeight,
                  targetVolume, surfaceN, h, v, dropSpawnAccumulator, streamX,
                  isDraining, whirlpoolActive, whirlpoolCenter,
                  whirlpoolStrength, drainRate, hist, tock >>

\* a reset that counts its calls in the spawn accumulator: a faulty variant,
\* for sensitivity
Reset_Counting ==
  /\ droplets' = << >>
  /\ waterVolume' = 0
  /\ dropSpawnAccumulator' = dropSpawnAccumulator + 1
  /\ h' = Zeros(Len(h))
  /\ v' = Zeros(Len(v))
  /\ isDraining' = FALSE
  /\ whirlpoolActive' = FALSE
  /\ whirlpoolStrength' = 0
  /\ drainRate' = 0
  /\ lastOp' = "reset"
  /\ pre' = NoTick("reset")
  /\ hist' = [hist EXCEPT !.spawned = 0, !.count = 0, !.skipped = 0,
                          !.emitMs = 0, !.drainMs = 0 - 1]
  /\ UNCHANGED << width, height, targetFillHeight, targetVolume,
                  volumePerSecond, surfaceN, streamX, whirlpoolCenter, tock >>

\* a reset that leaves the whirlpool strength alone: a faulty variant, for
\* sensitivity
Reset_KeepsStrength ==
  /\ droplets' = << >>
  /\ waterVolume' = 0
  /\ dropSpawnAccumulator' = 0
  /\ h' = Zeros(Len(h))
  /\ v' = Zeros(Len(v))
  /\ isDraining' = FALSE
  /\ whirlpoolActive' = FALSE
  /\ whirlpoolStrength' = whirlpoolStrength
  /\ drainRate' = 0
  /\ lastOp' = "reset"
  /\ pre' = NoTick("reset")
  /\ hist' = [hist EXCEPT !.spawned = 0, !.count = 0, !.skipped = 0,
                          !.emitMs = 0, !.drainMs = 0 - 1]
  /\ UNCHANGED << width, height, targetFillHeight, targetVolume,
                  volumePerSecond, surfaceN, streamX, whirlpoolCenter, tock >>

\* a reset that also switches the emission off: a faulty variant, for
\* sensitivity
Reset_ClearsEmission ==
  /\ droplets' = << >>
  /\ waterVolume' = 0
  /\ dropSpawnAccumulator' = 0
  /\ h' = Zeros(Len(h))
  /\ v' = Zeros(Len(v))
  /\ isDraining' = FALSE
  /\ whirlpoolActive' = FALSE
  /\ whirlpoolStrength' = 0
  /\ drainRate' = 0
  /\ volumePerSecond' = 0
  /\ lastOp' = "reset"
  /\ pre' = NoTick("reset")
  /\ hist' = [hist EXCEPT !.spawned = 0, !.count = 0, !.skipped = 0,
                          !.emitMs = 0, !.drainMs = 0 - 1]
  /\ UNCHANGED << width, height, targetFillHeight, targetVolume,
                  surfaceN, streamX, whirlpoolCenter, tock >>

\* reset()
Reset ==
  /\ droplets' = << >>
  /\ waterVolume' = 0
  /\ dropSpawnAccumulator' = 0
  /\ h' = Zeros(Len(h))
  /\ v' = Zeros(Len(v))
  /\ isDraining' = FALSE
  /\ whirlpoolActive' = FALSE
  /\ whirlpoolStrength' = 0
  /\ drainRate' = 0
  /\ lastOp' = "reset"
  /\ pre' = NoTick("reset")
  /\ hist' = [hist EXCEPT !.spawned = 0, !.count = 0, !.skipped = 0,
                          !.emitMs = 0, !.drainMs = 0 - 1]
  /\ UNCHANGED << width, height, targetFillHeight, targetVolume,
                  volumePerSecond, surfaceN, streamX, whirlpoolCenter, tock >>

\* a startDraining that also drops the droplets in flight: a faulty variant,
\* for sensitivity
StartDraining_ClearsDroplets ==
  /\ isDraining' = TRUE
  /\ whirlpoolActive' = TRUE
  /\ whirlpoolCenter' = [x |-> width * (PosScale \div 2),
                         y |-> (height - whirlpoolDepth) * PosScale]
  /\ whirlpoolStrength' = strengthSeed
  /\ drainRate' = waterVolume
  /\ droplets' = << >>
  /\ lastOp' = "startDraining"
  /\ pre' = NoTick("startDraining")
  /\ hist' = [hist EXCEPT !.drainMs = 0]
  /\ UNCHANGED << width, height, waterVolume, targetFillHeight,
                  targetVolume, volumePerSecond, surfaceN, h, v,
                  dropSpawnAccumulator, streamX, tock >>

\* a startDraining that leaves whirlpoolActive alone: a faulty variant, for
\* sensitivity
StartDraining_NoWhirlpool ==
  /\ isDraining' = TRUE
  /\ whirlpoolCenter' = [x |-> width * (PosScale \div 2),
                         y |-> (height - whirlpoolDepth) * PosScale]
  /\ whirlpoolStrength' = strengthSeed
  /\ drainRate' = waterVolume
  /\ lastOp' = "startDraining"
  /\ pre' = NoTick("startDraining")
  /\ hist' = [hist EXCEPT !.drainMs = 0]
  /\ UNCHANGED << width, height, droplets, waterVolume, targetFillHeight,
                  targetVolume, volumePerSecond, surfaceN, h, v,
                  dropSpawnAccumulator, streamX, whirlpoolActive, tock >>

\* startDraining()
StartDraining ==
  /\ isDraining' = TRUE
  /\ whirlpoolActive' = TRUE
  /\ whirlpoolCenter' = [x |-> width * (PosScale \div 2),
                         y |-> (height - whirlpoolDepth) * PosScale]
  /\ whirlpoolStrength' = strengthSeed
  /\ drainRate' = waterVolume
  /\ lastOp' = "startDraining"
  /\ pre' = NoTick("startDraining")
  /\ hist' = [hist EXCEPT !.drainMs = 0]
  /\ UNCHANGED << width, height, droplets, waterVolume, targetFillHeight,
                  targetVolume, volumePerSecond, surfaceN, h, v,
                  dropSpawnAccumulator, streamX, tock >>

\* update, line 246: the stream position for a wobble (1/1000 px)
StreamPosition(w, wob) ==
  Max(streamWidth * PosScale, Min((w - streamWidth) * PosScale, w * 560 + wob))

\* update, lines 258-262: the volume left after the drain's withdrawal,
\* rounded so that the withdrawals of a whole drain duration are never short
\* of the starting volume
Withdraw(vol, rate, dt) == Max(0, vol - MulDivCeil(rate, dt, DrainDurationMs))

\* a clamp whose ceiling is 10 ms too high: a faulty variant, for sensitivity
ClampDt_HighCeiling(deltaTime) == Max(0, Min(maxDt + 10, deltaTime))

\* update, line 239: the timestep (ms) for a deltaTime (ms)
ClampDt(deltaTime) == Max(0, Min(maxDt, deltaTime))

\* an emission test that ignores the drain: a faulty variant, for sensitivity
Emitting_WhileDraining(draining, active, vps) == vps > 0

\* update, line 250: whether this update emits droplets
Emitting(draining, active, vps) == ~draining /\ ~active /\ vps > 0

\* a spawn loop that runs while the accumulator is above 1, not at 1: a
\* faulty variant, for sensitivity
SpawnRequests_Above(acc) == IF acc <= 0 THEN 0 ELSE (acc - 1) \div AccScale

\* update, lines 252-255: the spawnDroplet calls made for an accumulator
\* value (the loop runs while the accumulator is at least 1)
SpawnRequests(acc) == IF acc < AccScale THEN 0 ELSE acc \div AccScale

\* an auto-stop test that ignores the droplets in flight: a faulty variant,
\* for sensitivity
DrainDone_IgnoresDroplets(draining, vol, count) == draining /\ vol <= 0

\* update, line 329: whether the drain stops at the end of this update
DrainDone(draining, vol, count) == draining /\ vol <= 0 /\ count = 0

\* a drain rate that follows the volume left: a faulty variant, for sensitivity
DrainRateAfter_Tracking(stop, rate, vol) == IF stop THEN 0 ELSE vol

\* update, lines 258-262 and 329-334: the drain rate an update leaves, which
\* it assigns only when the drain stops
DrainRateAfter(stop, rate, vol) == IF stop THEN 0 ELSE rate

\* an auto-stop that leaves the whirlpool strength as it was: a faulty
\* variant, for sensitivity
StrengthAfter_Residue(stop, strength) == strength

\* update, lines 329-334: the whirlpool strength an update leaves
StrengthAfter(stop, strength) == IF stop THEN 0 ELSE strength

\* update(deltaTime) on a simulation whose fields are S, reading env from its
\* environment: every field the call assigns, and what it did
UpdatedFrom(S, deltaTime, env) ==
  LET dt == ClampDt(deltaTime)
      sx == StreamPosition(S.width, env.wob)
      emitting == Emitting(S.isDraining, S.whirlpoolActive, S.volumePerSecond)
      acc1 == S.dropSpawnAccumulator + dropsPerSecond * dt
      requests == IF emitting THEN SpawnRequests(acc1) ELSE 0
      ds1 == IF emitting
             THEN SpawnDroplets(S.droplets, requests, env.seed, S.volumePerSecond, sx, S.width)
             ELSE S.droplets
      withdrawing == S.isDraining /\ S.drainRate > 0
      vol1 == IF withdrawing THEN Withdraw(S.waterVolume, S.drainRate, dt) ELSE S.waterVolume
      str1 == IF withdrawing
              THEN Min(strengthCap, S.whirlpoolStrength + strengthRampPerMs * dt)
              ELSE S.whirlpoolStrength
      baseSurfaceY == GetBaseSurfaceY(S.width, S.height, S.targetFillHeight, vol1)
      moved == MoveDroplets(ds1, dt, S.width)
      st0 == [vol |-> vol1, v |-> S.v, landed |-> {}, landedVol |-> 0,
              discarded |-> {}, discardedVol |-> 0, clamped |-> 0]
      st1 == ResolveRange(st0, moved, 1, Len(moved), S.width, S.height,
                          S.targetFillHeight, S.targetVolume, S.surfaceN, S.h, env.big)
      ds2 == Keep(moved, st1.landed \cup st1.discarded, 1, Len(moved))
      v2 == IF S.whirlpoolActive
            THEN ApplySink(st1.v, S.whirlpoolCenter.x, str1, dt, S.width, S.surfaceN)
            ELSE st1.v
      vol2 == IF baseSurfaceY < 0 THEN S.width * S.height * VolScale ELSE st1.vol
      fld == StepSurface(S.h, v2, S.surfaceN, S.width, dt)
      stop == DrainDone(S.isDraining, vol2, Len(ds2))
  IN  [streamX |-> sx,
       dropSpawnAccumulator |-> IF emitting THEN acc1 - requests * AccScale
                                ELSE S.dropSpawnAccumulator,
       droplets |-> ds2,
       waterVolume |-> vol2,
       h |-> fld.h,
       v |-> fld.v,
       isDraining |-> IF stop THEN FALSE ELSE S.isDraining,
       whirlpoolActive |-> IF stop THEN FALSE ELSE S.whirlpoolActive,
       whirlpoolStrength |-> StrengthAfter(stop, str1),
       drainRate |-> DrainRateAfter(stop, S.drainRate, vol2),
       pre |-> [op |-> "update", prev |-> S.lastOp, vol |-> S.waterVolume,
                draining |-> S.isDraining, count |-> Len(S.droplets),
                n |-> S.surfaceN, inFlight |-> Len(ds1), requests |-> requests,
                landed |-> Cardinality(st1.landed), landedVol |-> st1.landedVol,
                discarded |-> Cardinality(st1.discarded),
                discardedVol |-> st1.discardedVol, clamped |-> st1.clamped,
                dt |-> dt],
       hist |-> [spawned |-> S.hist.spawned
                               + SumVol(ds1, Len(S.droplets) + 1, Len(ds1)),
                 count |-> S.hist.count + (Len(ds1) - Len(S.droplets)),
                 skipped |-> S.hist.skipped
                               + (requests - (Len(ds1) - Len(S.droplets))),
                 emitMs |-> IF emitting THEN S.hist.emitMs + dt ELSE S.hist.emitMs,
                 drainMs |-> IF S.hist.drainMs < 0 THEN S.hist.drainMs
                             ELSE Min(DrainClockCap, S.hist.drainMs + dt),
                 frame |-> IF S.hist.frame = 0 THEN dt ELSE S.hist.frame]]

\* update(deltaTime) on the simulation as it stands
Updated(deltaTime, env) == UpdatedFrom(Sim, deltaTime, env)

Update(deltaTime, env) ==
  \E r \in { Updated(deltaTime, env) } :
    /\ streamX' = r.streamX
    /\ dropSpawnAccumulator' = r.dropSpawnAccumulator
    /\ droplets' = r.droplets
    /\ waterVolume' = r.waterVolume
    /\ h' = r.h
    /\ v' = r.v
    /\ isDraining' = r.isDraining
    /\ whirlpoolActive' = r.whirlpoolActive
    /\ whirlpoolStrength' = r.whirlpoolStrength
    /\ drainRate' = r.drainRate
    /\ lastOp' = "update"
    /\ pre' = r.pre
    /\ hist' = r.hist
    /\ tock' = ~tock
    /\ UNCHANGED << width, height, targetFillHeight, targetVolume,
                    volumePerSecond, surfaceN, whirlpoolCenter >>

\* ------------------------------------------------------------ specifications
\* Spec: every call in every order, a bounded number of times
Config(A) == nConfig < MaxConfigCalls /\ A /\ nConfig' = nConfig + 1 /\ nTicks' = nTicks /\ ctl' = ctl /\ variant' = variant
Tick(A) == nTicks < MaxTicks /\ A /\ nTicks' = nTicks + 1 /\ nConfig' = nConfig /\ ctl' = ctl /\ variant' = variant

Next ==
  \/ \E s \in Scenes : Config(Resize(s.w, s.ht))
  \/ \E ht \in TargetInputs : Config(SetTargetFillHeight(ht))
  \/ \E vps \in EmissionInputs : Config(SetEmission(vps))
  \/ Config(Reset)
  \/ Config(StartDraining)
  \/ \E d \in DtInputs, e \in EnvInputs : Tick(Update(d, e))

Spec == Init /\ [][Next]_vars

\* FillSpec: a run of frames of one period in one scene, the emission rate
\* set before the first frame, the target set at any time
FillInit == Constructed(RunScene.w, RunScene.ht)

FillNext ==
  \/ \E vps \in EmissionInputs :
       /\ nTicks = 0 /\ nConfig < MaxFillConfigs
       /\ SetEmission(vps)
       /\ nConfig' = nConfig + 1 /\ nTicks' = nTicks /\ ctl' = ctl /\ variant' = variant
  \/ \E ht \in FillTargets :
       /\ nConfig < MaxFillConfigs
       /\ SetTargetFillHeight(ht)
       /\ nConfig' = nConfig + 1 /\ nTicks' = nTicks /\ ctl' = ctl /\ variant' = variant
  \/ \E d \in FrameInputs :
       /\ nTicks < MaxFillTicks /\ hist.frame \in { 0, d }
       /\ Update(d, FillEnv)
       /\ nTicks' = nTicks + 1 /\ nConfig' = nConfig /\ ctl' = ctl /\ variant' = variant

FillSpec == FillInit /\ [][FillNext]_vars

\* DrainSpec: the completion drain.  A few frames of filling, startDraining
\* once, then the drain loop of complete(): a frame for as long as the drain
\* is active.
DrainInit == Constructed(RunScene.w, RunScene.ht)

DrainTick ==
  \E d \in DrainFrames, e \in EnvInputs :
    /\ isDraining \/ whirlpoolActive
    /\ Update(d, e)
    /\ UNCHANGED << nConfig, nTicks, ctl, variant >>

DrainNext ==
  \/ \E vps \in DrainEmissions :
       /\ lastOp = "construct"
       /\ SetEmission(vps)
       /\ nConfig' = nConfig + 1 /\ nTicks' = nTicks /\ ctl' = ctl /\ variant' = variant
  \/ \E d \in DrainFrames, e \in EnvInputs :
       /\ hist.drainMs < 0 /\ nTicks < MaxDrainFillTicks
       /\ Update(d, e)
       /\ nTicks' = nTicks + 1 /\ nConfig' = nConfig /\ ctl' = ctl /\ variant' = variant
  \/ /\ hist.drainMs < 0
     /\ StartDraining
     /\ nConfig' = nConfig + 1 /\ nTicks' = nTicks /\ ctl' = ctl /\ variant' = variant
  \/ DrainTick

\* a frame of the drain loop runs
DrainFrame == (isDraining \/ whirlpoolActive) /\ tock' = ~tock

\* requestAnimationFrame keeps calling the drain loop back for as long as
\* the drain is active
DrainSpec == DrainInit /\ [][DrainNext]_vars /\ WF_tock(DrainFrame)

\* CapSpec: a long run of frames in a scene so tall that the droplets
\* spawned stay in flight
CapInit == Constructed(CapScene.w, CapScene.ht)

CapNext ==
  \/ \E vps \in CapEmissions :
       /\ lastOp = "construct"
       /\ SetEmission(vps)
       /\ nConfig' = nConfig + 1 /\ nTicks' = nTicks /\ ctl' = ctl /\ variant' = variant
  \/ \E d \in CapFrames :
       /\ nTicks < MaxCapTicks
       /\ Update(d, CapEnv)
       /\ nTicks' = nTicks + 1 /\ nConfig' = nConfig /\ ctl' = ctl /\ variant' = variant

CapSpec == CapInit /\ [][CapNext]_vars

\* ResampleSpec: a simulation whose height field has one of the shapes,
\* resized from scene to scene; hist keeps the field it started from
ResampleInit ==
  \E s \in ResampleScenes, kind \in FieldShapes :
    /\ width = s.w
    /\ height = s.ht
    /\ droplets = << >>
    /\ waterVolume = 0
    /\ targetFillHeight = 0
    /\ targetVolume = 0
    /\ volumePerSecond = 0
    /\ surfaceN = SurfaceCount(s.w)
    /\ h = FieldShape(kind, SurfaceCount(s.w))
    /\ v = Zeros(SurfaceCount(s.w))
    /\ dropSpawnAccumulator = 0
    /\ streamX = s.w * 550
    /\ isDraining = FALSE
    /\ whirlpoolActive = FALSE
    /\ whirlpoolCenter = [x |-> 0, y |-> 0]
    /\ whirlpoolStrength = 0
    /\ drainRate = 0
    /\ lastOp = "construct"
    /\ nConfig = 0
    /\ nTicks = 0
    /\ pre = [op |-> "construct", prev |-> "construct", vol |-> 0,
              draining |-> FALSE, count |-> 0, n |-> 0, inFlight |-> 0,
              requests |-> 0, landed |-> 0, landedVol |-> 0, discarded |-> 0,
              discardedVol |-> 0, clamped |-> 0, dt |-> 0]
    /\ hist = [spawned |-> 0, count |-> 0, skipped |-> 0, emitMs |-> 0,
               drainMs |-> 0 - 1, frame |-> 0,
               orig |-> FieldShape(kind, SurfaceCount(s.w))]
    /\ tock = FALSE
    /\ ctl = TimerConstructed
  /\ variant = PartConstructed(0, 0)

ResampleNext ==
  \E s \in ResampleScenes :
    /\ nConfig < MaxResizes
    /\ Resize(s.w, s.ht)
    /\ nConfig' = nConfig + 1 /\ nTicks' = nTicks /\ ctl' = ctl /\ variant' = variant

ResampleSpec == ResampleInit /\ [][ResampleNext]_vars

\* ClampSpec: frames of any length, before and during a drain
ClampInit == Constructed(RunScene.w, RunScene.ht)

ClampNext ==
  \/ \E vps \in DrainEmissions :
       /\ lastOp = "construct"
       /\ SetEmission(vps)
       /\ nConfig' = nConfig + 1 /\ nTicks' = nTicks /\ ctl' = ctl /\ variant' = variant
  \/ \E d \in ClampInputs :
       /\ nTicks < MaxClampTicks
       /\ Update(d, ClampEnv)
       /\ nTicks' = nTicks + 1 /\ nConfig' = nConfig /\ ctl' = ctl /\ variant' = variant
  \/ /\ hist.drainMs < 0
     /\ StartDraining
     /\ nConfig' = nConfig + 1 /\ nTicks' = nTicks /\ ctl' = ctl /\ variant' = variant

ClampSpec == ClampInit /\ [][ClampNext]_vars

\* RippleSpec: addRippleImpulse called on its own, at positions across the
\* scene; hist keeps the arguments of the last call
RippleInit ==
  \E s \in RippleScenes :
    /\ width = s.w
    /\ height = s.ht
    /\ droplets = << >>
    /\ waterVolume = 0
    /\ targetFillHeight = 0
    /\ targetVolume = 0
    /\ volumePerSecond = 0
    /\ surfaceN = SurfaceCount(s.w)
    /\ h = Zeros(SurfaceCount(s.w))
    /\ v = Zeros(SurfaceCount(s.w))
    /\ dropSpawnAccumulator = 0
    /\ streamX = s.w * 550
    /\ isDraining = FALSE
    /\ whirlpoolActive = FALSE
    /\ whirlpoolCenter = [x |-> 0, y |-> 0]
    /\ whirlpoolStrength = 0
    /\ drainRate = 0
    /\ lastOp = "construct"
    /\ nConfig = 0
    /\ nTicks = 0
    /\ pre = [op |-> "construct", prev |-> "construct", vol |-> 0,
              draining |-> FALSE, count |-> 0, n |-> 0, inFlight |-> 0,
              requests |-> 0, landed |-> 0, landedVol |-> 0, discarded |-> 0,
              discardedVol |-> 0, clamped |-> 0, dt |-> 0]
    /\ hist = [spawned |-> 0, count |-> 0, skipped |-> 0, emitMs |-> 0,
               drainMs |-> 0 - 1, frame |-> 0, x |-> 0, s |-> 0]
    /\ tock = FALSE
    /\ ctl = TimerConstructed
  /\ variant = PartConstructed(0, 0)

\* addRippleImpulse(x, strength), x in 1/1000 px
AddRippleImpulseCall(x, strength) ==
  /\ v' = AddRippleImpulse(v, x, strength, width, surfaceN)
  /\ lastOp' = "addRippleImpulse"
  /\ pre' = NoTick("addRippleImpulse")
  /\ hist' = [hist EXCEPT !.x = x, !.s = strength]
  /\ UNCHANGED << width, height, droplets, waterVolume, targetFillHeight,
                  targetVolume, volumePerSecond, surfaceN, h,
                  dropSpawnAccumulator, streamX, isDraining, whirlpoolActive,
                  whirlpoolCenter, whirlpoolStrength, drainRate, tock >>

RippleNext ==
  \E x \in RippleXs, strength \in RippleStrengths :
    /\ nConfig < MaxImpulses
    /\ x <= width * PosScale
    /\ AddRippleImpulseCall(x, strength)
    /\ nConfig' = nConfig + 1 /\ nTicks' = nTicks /\ ctl' = ctl /\ variant' = variant

RippleSpec == RippleInit /\ [][RippleNext]_vars

\* ------------------------------------------------------------ timer controller
\* the simulation object takes the fields of R
SimBecomes(R) ==
  /\ width' = R.width
  /\ height' = R.height
  /\ droplets' = R.droplets
  /\ waterVolume' = R.waterVolume
  /\ targetFillHeight' = R.targetFillHeight
  /\ targetVolume' = R.targetVolume
  /\ volumePerSecond' = R.volumePerSecond
  /\ surfaceN' = R.surfaceN
  /\ h' = R.h
  /\ v' = R.v
  /\ dropSpawnAccumulator' = R.dropSpawnAccumulator
  /\ streamX' = R.streamX
  /\ isDraining' = R.isDraining
  /\ whirlpoolActive' = R.whirlpoolActive
  /\ whirlpoolCenter' = R.whirlpoolCenter
  /\ whirlpoolStrength' = R.whirlpoolStrength
  /\ drainRate' = R.drainRate
  /\ lastOp' = R.lastOp
  /\ hist' = R.hist
  /\ pre' = R.pre
  /\ tock' = R.tock

\* what a call on S that is no update records in pre
NoTickOf(S, op) ==
  [op |-> op, prev |-> S.lastOp, vol |-> S.waterVolume,
   draining |-> S.isDraining, count |-> Len(S.droplets), n |-> S.surfaceN,
   inFlight |-> 0, requests |-> 0, landed |-> 0, landedVol |-> 0,
   discarded |-> 0, discardedVol |-> 0, clamped |-> 0, dt |-> 0]

\* waterSim.setTargetFillHeight(height) on S
SetTargetFillHeightOf(S, ht) ==
  [S EXCEPT !.targetFillHeight = ht,
            !.targetVolume = S.width * ht * VolScale,
            !.lastOp = "setTargetFillHeight",
            !.pre = NoTickOf(S, "setTargetFillHeight")]

\* waterSim.reset() on S
ResetOf(S) ==
  [S EXCEPT !.droplets = << >>,
            !.waterVolume = 0,
            !.dropSpawnAccumulator = 0,
            !.h = Zeros(Len(S.h)),
            !.v = Zeros(Len(S.v)),
            !.isDraining = FALSE,
            !.whirlpoolActive = FALSE,
            !.whirlpoolStrength = 0,
            !.drainRate = 0,
            !.lastOp = "reset",
            !.pre = NoTickOf(S, "reset"),
            !.hist = [S.hist EXCEPT !.spawned = 0, !.count = 0, !.skipped = 0,
                                    !.emitMs = 0, !.drainMs = 0 - 1]]

\* waterSim.setEmission(volumePerSecond) on S
SetEmissionOf(S, vps) ==
  [S EXCEPT !.volumePerSecond = Max(0, vps),
            !.lastOp = "setEmission",
            !.pre = NoTickOf(S, "setEmission")]

\* waterSim.startDraining() on S
StartDrainingOf(S) ==
  [S EXCEPT !.isDraining = TRUE,
            !.whirlpoolActive = TRUE,
            !.whirlpoolCenter = [x |-> S.width * (PosScale \div 2),
                                 y |-> (S.height - whirlpoolDepth) * PosScale],
            !.whirlpoolStrength = strengthSeed,
            !.drainRate = S.waterVolume,
            !.lastOp = "startDraining",
            !.pre = NoTickOf(S, "startDraining"),
            !.hist = [S.hist EXCEPT !.drainMs = 0]]

\* waterSim.update(deltaTime) on S
UpdateOf(S, deltaTime, env) ==
  CHOOSE R \in
    { [S EXCEPT !.streamX = r.streamX,
                !.dropSpawnAccumulator = r.dropSpawnAccumulator,
                !.droplets = r.droplets,
                !.waterVolume = r.waterVolume,
                !.h = r.h,
                !.v = r.v,
                !.isDraining = r.isDraining,
                !.whirlpoolActive = r.whirlpoolActive,
                !.whirlpoolStrength = r.whirlpoolStrength,
                !.drainRate = r.drainRate,
                !.lastOp = "update",
                !.pre = r.pre,
                !.hist = r.hist,
                !.tock = ~S.tock] :
        r \in { UpdatedFrom(S, deltaTime, env) } } : TRUE

\* requestAnimationFrame(callback): the callback joins those of the next frame
RequestFrame(c, kind) ==
  [c EXCEPT !.pending = Append(c.pending,
                               [id |-> c.nextId, kind |-> kind, last |-> c.now]),
            !.nextId = (c.nextId % FrameIdWrap) + 1]

\* performance.now() - from, read at time to
Elapsed(from, to) == (to - from) % ClockWrap

\* cancelAnimationFrame(id)
CancelFrame(c, id) ==
  [c EXCEPT !.pending = SelectSeq(c.pending, LAMBDA cb : cb.id # id)]

\* complete(), lines 787-799: one call of drainAnimation whose closure
\* variable last holds the time of the call before it.  The result is the
\* controller, the simulation and the number of update calls made.
DrainAnimation(c, S, last) ==
  IF S.isDraining \/ S.whirlpoolActive
  THEN [c |-> RequestFrame(c, "drainAnimation"),
        S |-> UpdateOf(S, Elapsed(last, c.now), TimerEnv),
        n |-> 1]
  ELSE [c |-> [c EXCEPT !.wakeLock = FALSE], S |-> S, n |-> 0]

\* complete()
Complete(c, S) ==
  DrainAnimation([c EXCEPT !.isRunning = FALSE, !.remainingMs = 0,
                           !.overlay = TRUE],
                 StartDrainingOf(S), c.now)

\* an animate that goes on after reset(): a faulty variant, for sensitivity
AnimateRuns_Always(isRunning) == TRUE

\* animate, line 667: whether the frame goes on
AnimateRuns(isRunning) == isRunning

\* animate()
Animate(c, S) ==
  IF ~AnimateRuns(c.isRunning) THEN [c |-> c, S |-> S, n |-> 0]
  ELSE LET deltaTime == Elapsed(c.lastTime, c.now)
           c1 == [c EXCEPT !.lastTime = c.now]
           again == [RequestFrame(c1, "animate") EXCEPT !.intervalId = c1.nextId]
       IN  IF c.isPaused THEN [c |-> again, S |-> S, n |-> 0]
           ELSE IF c.remainingMs - deltaTime <= 0
           THEN Complete([c1 EXCEPT !.remainingMs = c.remainingMs - deltaTime], S)
           ELSE [c |-> [again EXCEPT !.remainingMs = c.remainingMs - deltaTime],
                 S |-> UpdateOf(S, deltaTime, TimerEnv),
                 n |-> 1]

\* a rejected start() that still asks for the wake lock: a faulty variant,
\* for sensitivity
StartRejected_RequestsLock(c, total) ==
  [c EXCEPT !.totalSeconds = total, !.awaiting = c.awaiting + 1]

\* start(), lines 607-611: the controller after a duration <= 0 is refused
StartRejected(c, total) == [c EXCEPT !.totalSeconds = total]

\* a click on the start button: start() up to its await
TimerStart(total) ==
  /\ ctl.startShown /\ ctl.due = << >> /\ ctl.clicks < MaxClicks
  /\ IF total <= 0
     THEN /\ ctl' = [StartRejected(ctl, total) EXCEPT !.op = "start",
                                !.clicks = ctl.clicks + 1]
          /\ UNCHANGED << simVars, lastOp, pre, hist, tock >>
     ELSE /\ ctl' = [ctl EXCEPT !.totalSeconds = total,
                                !.remainingMs = total * 1000,
                                !.isRunning = TRUE,
                                !.isPaused = FALSE,
                                !.startShown = FALSE,
                                !.timerShown = TRUE,
                                !.awaiting = ctl.awaiting + 1,
                                !.afterReset = FALSE,
                                !.op = "start",
                                !.clicks = ctl.clicks + 1]
          /\ \E R \in { ResetOf(SetTargetFillHeightOf(Sim, height)) } :
               SimBecomes(SetEmissionOf(R, R.targetVolume \div total))
  /\ UNCHANGED << nConfig, nTicks, variant >>

\* a click on the pause button: pause()
TimerPause ==
  /\ ctl.timerShown /\ ctl.due = << >> /\ ctl.clicks < MaxClicks
  /\ ctl' = [ctl EXCEPT !.isPaused = ~ctl.isPaused, !.op = "pause",
                        !.clicks = ctl.clicks + 1]
  /\ UNCHANGED << simVars, lastOp, pre, hist, tock, nConfig, nTicks, variant >>

\* a click on the reset button: reset()
TimerReset ==
  /\ ctl.timerShown /\ ctl.due = << >> /\ ctl.clicks < MaxClicks
  /\ ctl' = [(IF ctl.intervalId # 0 THEN CancelFrame(ctl, ctl.intervalId)
              ELSE ctl)
               EXCEPT !.isRunning = FALSE,
                      !.isPaused = FALSE,
                      !.remainingMs = 0,
                      !.intervalId = 0,
                      !.startShown = TRUE,
                      !.timerShown = FALSE,
                      !.overlay = FALSE,
                      !.wakeLock = FALSE,
                      !.afterReset = TRUE,
                      !.op = "reset",
                      !.clicks = ctl.clicks + 1]
  /\ SimBecomes(ResetOf(Sim))
  /\ UNCHANGED << nConfig, nTicks, variant >>

\* the wake-lock request of a suspended start() settles (granted or not):
\* start() from its await to its end
WakeLockSettles(granted) ==
  /\ ctl.awaiting > 0 /\ ctl.due = << >>
  /\ \E K \in { Animate([ctl EXCEPT !.awaiting = ctl.awaiting - 1,
                                     !.wakeLock = granted \/ ctl.wakeLock,
                                     !.lastTime = ctl.now], Sim) } :
       /\ ctl' = [K.c EXCEPT !.op = "granted"]
       /\ SimBecomes(K.S)
  /\ UNCHANGED << nConfig, nTicks, variant >>

\* the page becomes visible again: the visibilitychange handler up to its await
VisibilityChange ==
  /\ ctl.isRunning /\ ctl.due = << >>
  /\ ctl.visibility < MaxVisibilityChanges
  /\ ctl' = [ctl EXCEPT !.visibility = ctl.visibility + 1,
                        !.reacquiring = ctl.reacquiring + 1,
                        !.op = "visible"]
  /\ UNCHANGED << simVars, lastOp, pre, hist, tock, nConfig, nTicks, variant >>

\* the wake-lock request of the visibilitychange handler settles
ReacquireSettles(granted) ==
  /\ ctl.reacquiring > 0 /\ ctl.due = << >>
  /\ ctl' = [ctl EXCEPT !.reacquiring = ctl.reacquiring - 1,
                        !.wakeLock = granted \/ ctl.wakeLock,
                        !.op = "reacquired"]
  /\ UNCHANGED << simVars, lastOp, pre, hist, tock, nConfig, nTicks, variant >>

\* the browser starts an animation frame: the callbacks requested so far
\* are the ones this frame runs
AnimationFrame ==
  /\ ctl.due = << >> /\ ctl.pending # << >> /\ ctl.frames < MaxFrames
  /\ ctl' = [ctl EXCEPT !.now = (ctl.now + FramePeriodMs) % ClockWrap,
                        !.due = ctl.pending,
                        !.pending = << >>,
                        !.tickUpdates = 0,
                        !.frames = ctl.frames + 1,
                        !.op = "frame"]
  /\ UNCHANGED << simVars, lastOp, pre, hist, tock, nConfig, nTicks, variant >>

\* the frame in progress runs its next callback
FrameCallback ==
  /\ ctl.due # << >>
  /\ \E cb \in { Head(ctl.due) } :
       \E K \in { IF cb.kind = "animate"
                  THEN Animate([ctl EXCEPT !.due = Tail(ctl.due)], Sim)
                  ELSE DrainAnimation([ctl EXCEPT !.due = Tail(ctl.due)], Sim,
                                      cb.last) } :
         /\ ctl' = [K.c EXCEPT !.tickUpdates = K.c.tickUpdates + K.n,
                               !.op = cb.kind]
         /\ SimBecomes(K.S)
  /\ UNCHANGED << nConfig, nTicks, variant >>

\* resets between the updates of a run: frames of -20, 30 and 120 ms, the
\* first of which update clamps to 0
ResetInit == Constructed(RunScene.w, RunScene.ht)

ResetNext ==
  \/ \E vps \in DrainEmissions :
       /\ lastOp = "construct"
       /\ SetEmission(vps)
       /\ nConfig' = nConfig /\ nTicks' = nTicks /\ ctl' = ctl /\ variant' = variant
  \/ \E d \in ClampInputs :
       /\ nTicks < MaxResetTicks
       /\ Update(d, ClampEnv)
       /\ nTicks' = nTicks + 1 /\ nConfig' = nConfig /\ ctl' = ctl /\ variant' = variant
  \/ /\ hist.drainMs < 0 /\ lastOp = "update"
     /\ StartDraining
     /\ nConfig' = nConfig /\ nTicks' = nTicks /\ ctl' = ctl /\ variant' = variant
  \/ /\ nConfig < MaxResetCalls /\ lastOp # "reset"
     /\ Reset
     /\ nConfig' = nConfig + 1 /\ nTicks' = nTicks /\ ctl' = ctl /\ variant' = variant

ResetSpec == ResetInit /\ [][ResetNext]_vars

TimerInit == Constructed(TimerScene.w, TimerScene.ht)

TimerNext ==
  \/ \E total \in TotalInputs : TimerStart(total)
  \/ TimerPause
  \/ TimerReset
  \/ \E granted \in BOOLEAN : WakeLockSettles(granted)
  \/ VisibilityChange
  \/ \E granted \in BOOLEAN : ReacquireSettles(granted)
  \/ AnimationFrame
  \/ FrameCallback

TimerSpec == TimerInit /\ [][TimerNext]_vars

\* the browser starts a further animation frame while the completion overlay
\* is shown: the frames of complete()'s drain loop are not counted
DrainLoopFrame ==
  /\ ctl.due = << >> /\ ctl.pending # << >>
  /\ ctl.overlay /\ ctl.frames = MaxFrames
  /\ ctl' = [ctl EXCEPT !.now = (ctl.now + FramePeriodMs) % ClockWrap,
                        !.due = ctl.pending,
                        !.pending = << >>,
                        !.tickUpdates = 0,
                        !.op = "frame"]
  /\ UNCHANGED << simVars, lastOp, pre, hist, tock, nConfig, nTicks, variant >>

\* a run from start() to its completion drain, which reset() may interrupt
CompletionNext ==
  \/ \E total \in TotalInputs : TimerStart(total)
  \/ TimerReset
  \/ \E granted \in BOOLEAN : WakeLockSettles(granted)
  \/ AnimationFrame
  \/ FrameCallback
  \/ DrainLoopFrame

\* the controller after the next callback of the frame in progress: what
\* animate() and drainAnimation() do to the controller does not depend on the
\* outcome of the update they call
CallbackCtl ==
  LET cb == Head(ctl.due)
      c0 == [ctl EXCEPT !.due = Tail(ctl.due), !.op = cb.kind]
      deltaTime == Elapsed(c0.lastTime, c0.now)
      c1 == [c0 EXCEPT !.lastTime = c0.now]
      again == [RequestFrame(c1, "animate") EXCEPT !.intervalId = c1.nextId]
      updated(c) == [c EXCEPT !.tickUpdates = c.tickUpdates + 1]
  IN  IF cb.kind = "drainAnimation"
      THEN IF isDraining \/ whirlpoolActive
           THEN updated(RequestFrame(c0, "drainAnimation"))
           ELSE [c0 EXCEPT !.wakeLock = FALSE]
      ELSE IF ~AnimateRuns(c0.isRunning) THEN c0
      ELSE IF c0.isPaused THEN again
      ELSE IF c0.remainingMs - deltaTime <= 0
      THEN updated(RequestFrame([c1 EXCEPT !.isRunning = FALSE,
                                           !.remainingMs = 0,
                                           !.overlay = TRUE],
                                "drainAnimation"))
      ELSE updated([again EXCEPT !.remainingMs = c0.remainingMs - deltaTime])

\* a callback of the frame in progress runs
CallbackRuns == ctl.due # << >> /\ ctl' = CallbackCtl

\* the browser runs every requested animation frame and every callback of a
\* frame it has started
CompletionSpec ==
  /\ TimerInit
  /\ [][CompletionNext]_vars
  /\ WF_ctl(AnimationFrame)
  /\ WF_ctl(DrainLoopFrame)
  /\ WF_ctl(CallbackRuns)

\* ------------------------------------------------------------ particle-based variant
\* src/unnamed/part_000.  Positions, radii, heights and the whirlpool
\* strength are in 1/PartScale px, velocities in 1/PartScale px per 1/60 s,
\* times in ms.

\* windows small enough for the particles to come to rest against their
\* sides (20 px wide and 0 px high, and 3 x 3 px), timer durations (s),
\* sequences of Math.random() values, and the sideways push a particle gets
\* from the random term of line 118
PartInputs ==
  [scenes |-> { [w |-> 20, ht |-> 0], [w |-> 3, ht |-> 3] },
   totals |-> { 100 },
   seeds |-> { 0, 1 },
   kicks |-> { 0, 2000 }]

\* a * n / d, truncated toward zero, d > 0
Scaled(a, n, d) ==
  LET q == a * n
  IN  IF q >= 0 THEN q \div d ELSE 0 - ((0 - q) \div d)

\* F(x), with x evaluated first
Eager(F(_), x) == CHOOSE r \in { F(y) : y \in { x } } : TRUE

\* Math.sqrt(dx * dx + dy * dy), to 1/100 px
PartDist(dx, dy) ==
  LET cx == Abs(dx) \div 100
      cy == Abs(dy) \div 100
  IN  100 * ISqrt(cx * cx + cy * cy, 0, 46000)

\* the j-th Math.random() of the call that adds the particle after the first
\* k, in percent
PartDraw(seed, k, j) == (37 * k + 17 * j + 29 * seed + 11) % 100

\* addParticle(x, y); an argument of 0 stands for a missing or falsy one
PartAddParticle(ps, x, y, w, seed) ==
  LET k == Len(ps)
  IN  Append(ps,
        [x |-> IF x # 0 THEN x ELSE (PartDraw(seed, k, 3) * w) \div 100,
         y |-> IF y # 0 THEN y ELSE 0 - 10 * PartScale,
         vx |-> ((PartDraw(seed, k, 4) - 50) * 2 * PartScale) \div 100,
         vy |-> (PartDraw(seed, k, 5) * 3 * PartScale) \div 100 + 2 * PartScale,
         radius |-> (PartDraw(seed, k, 6) * 3 * PartScale) \div 100
                      + 2 * PartScale])

\* n calls of addParticle: without arguments (update, lines 63-65) or, when
\* near, at a random x and up to 20 px above waterLevel (lines 199-201)
RECURSIVE PartAddParticles(_, _, _, _, _, _)
PartAddParticles(ps, n, w, seed, near, waterLevel) ==
  IF n = 0 THEN ps
  ELSE Eager(LAMBDA qs : PartAddParticles(qs, n - 1, w, seed, near, waterLevel),
             IF near
             THEN PartAddParticle(ps, (PartDraw(seed, Len(ps), 1) * w) \div 100,
                    waterLevel
                      - (PartDraw(seed, Len(ps), 2) * 20 * PartScale) \div 100,
                    w, seed)
             ELSE PartAddParticle(ps, 0, 0, w, seed))

\* update, lines 78-99: the whirlpool's pull on one particle
PartWhirl(p, V, dms) ==
  Eager(LAMBDA dist :
          LET dx == p.x - V.whirlpoolCenter.x
              dy == p.y - V.whirlpoolCenter.y
              force == (V.whirlpoolStrength * PartScale)
                         \div (dist + 10 * PartScale)
              cosA == IF dist = 0 THEN 1000 ELSE Scaled(dx, 1000, dist)
              sinA == IF dist = 0 THEN 0 ELSE Scaled(dy, 1000, dist)
              near == IF dist < 50 * PartScale
                      THEN 5 * dms * (PartScale \div 1000) ELSE 0
          IN  [p EXCEPT
                 !.vx = p.vx + Scaled(Scaled(0 - sinA, force, 1000), dms, 20)
                             - Scaled(Scaled(dx, force, PartScale), dms, 50),
                 !.vy = p.vy + Scaled(Scaled(cosA, force, 1000), dms, 20)
                             - Scaled(Scaled(dy, force, PartScale), dms, 50)
                             + near],
        PartDist(p.x - V.whirlpoolCenter.x, p.y - V.whirlpoolCenter.y))

\* update, lines 69-125, for one particle: gravity and damping, the
\* whirlpool, the motion of the frame, the left and right walls, the water
\* level and the top of the window, in this order
PartMove(p, V, dms) ==
  Eager(LAMBDA b :
          IF b.y < b.radius
          THEN [b EXCEPT !.y = b.radius, !.vy = Scaled(0 - b.vy, 3, 10)]
          ELSE b,
    Eager(LAMBDA r :
            IF r.y > V.height - V.currentFillHeight - r.radius
            THEN [r EXCEPT !.y = V.height - V.currentFillHeight - r.radius,
                           !.vy = Scaled(0 - r.vy, 3, 10),
                           !.vx = r.vx + V.kick]
            ELSE r,
      Eager(LAMBDA l :
              IF l.x > V.width - l.radius
              THEN [l EXCEPT !.x = V.width - l.radius,
                             !.vx = Scaled(0 - l.vx, 5, 10)]
              ELSE l,
        Eager(LAMBDA m :
                IF m.x < m.radius
                THEN [m EXCEPT !.x = m.radius, !.vx = Scaled(0 - m.vx, 5, 10)]
                ELSE m,
          Eager(LAMBDA f :
                  [f EXCEPT !.x = f.x + Scaled(f.vx, 6 * dms, 100),
                            !.y = f.y + Scaled(f.vy, 6 * dms, 100)],
            Eager(LAMBDA g :
                    IF V.whirlpoolActive THEN PartWhirl(g, V, dms) ELSE g,
                  [p EXCEPT
                     !.vx = Scaled(p.vx, 98, 100),
                     !.vy = Scaled(p.vy + (3 * dms * PartScale) \div 10000,
                                   98, 100)]))))))

\* update, lines 134-175: particle i meets a later particle j.  Two
\* overlapping particles are pushed apart and exchange momentum; two that
\* are less than three times as far apart attract particle i.
PartInteract(ps, i, j) ==
  Eager(LAMBDA dist :
          LET p == ps[i]
              o == ps[j]
              dx == o.x - p.x
              dy == o.y - p.y
              minDist == p.radius + o.radius
              cosA == Scaled(dx, 1000, dist)
              sinA == Scaled(dy, 1000, dist)
              moveX == Scaled(cosA, minDist - dist, 2000)
              moveY == Scaled(sinA, minDist - dist, 2000)
              dot == Scaled(o.vx - p.vx, cosA, 1000)
                       + Scaled(o.vy - p.vy, sinA, 1000)
              impulse == IF dot < 0 THEN Scaled(dot, 4, 10) ELSE 0
              ix == Scaled(impulse, cosA, 1000)
              iy == Scaled(impulse, sinA, 1000)
              tension == 1000000 \div ((dist \div 100) * (dist \div 100))
          IN  IF dist = 0 THEN ps
              ELSE IF dist < minDist
              THEN [ps EXCEPT
                      ![i] = [p EXCEPT !.x = p.x - moveX, !.y = p.y - moveY,
                                       !.vx = p.vx + ix, !.vy = p.vy + iy],
                      ![j] = [o EXCEPT !.x = o.x + moveX, !.y = o.y + moveY,
                                       !.vx = o.vx - ix, !.vy = o.vy - iy]]
              ELSE IF dist < 3 * minDist
              THEN [ps EXCEPT
                      ![i] = [p EXCEPT !.vx = p.vx + Scaled(dx, tension, dist),
                                       !.vy = p.vy + Scaled(dy, tension, dist)]]
              ELSE ps,
        PartDist(ps[j].x - ps[i].x, ps[j].y - ps[i].y))

\* the nearby particles of particle i, met in list order
RECURSIVE PartInteractAll(_, _, _, _)
PartInteractAll(ps, i, j, nearby) ==
  IF j > Len(ps) THEN ps
  ELSE Eager(LAMBDA qs : PartInteractAll(qs, i, j + 1, nearby),
             IF j \in nearby THEN PartInteract(ps, i, j) ELSE ps)

\* update, lines 67-176: the particles in list order, each moved and then
\* made to meet the later ones among those less than 20 px away from it
\* (lines 128-132)
RECURSIVE PartStep(_, _, _, _)
PartStep(ps, i, V, dms) ==
  IF i > Len(ps) THEN ps
  ELSE Eager(LAMBDA moved :
               Eager(LAMBDA qs : PartStep(qs, i + 1, V, dms),
                     PartInteractAll(moved, i, i + 1,
                       { j \in (i + 1)..Len(ps) :
                           LET cx == Abs(moved[j].x - moved[i].x) \div 100
                               cy == Abs(moved[j].y - moved[i].y) \div 100
                           IN  cx < 40000 /\ cy < 40000
                                 /\ cx * cx + cy * cy < 400 * 10000 })),
             [ps EXCEPT ![i] = PartMove(ps[i], V, dms)])

\* update, lines 180-186: whether a particle stays in the list
PartKeeps(p, V) ==
  /\ ~(V.whirlpoolActive /\ p.y > V.height + 50 * PartScale)
  /\ p.y < V.height + 100 * PartScale
  /\ p.x > 0 - 100 * PartScale
  /\ p.x < V.width + 100 * PartScale

\* update(deltaTime, fillRate), deltaTime in ms and fillRate in 1/PartScale
\* px per second: the particles the frame adds (lines 59-66), their motion,
\* the ones that stay, then the fill height and the extra particles placed
\* near the water level (lines 188-203)
PartUpdate(V, dms, fillRate) ==
  Eager(LAMBDA kept :
          LET filling == ~V.isDraining /\ ~V.whirlpoolActive /\ fillRate > 0
              level == IF filling
                       THEN Min(V.currentFillHeight
                                  + Scaled(fillRate, 6 * dms, 100),
                                V.targetFillHeight)
                       ELSE V.currentFillHeight
              below == Cardinality({ i \in 1..Len(kept) :
                                       kept[i].y >= V.height - level })
          IN  [V EXCEPT
                 !.currentFillHeight = level,
                 !.particles =
                   IF filling /\ below < 100 /\ level < V.targetFillHeight
                   THEN PartAddParticles(kept, 5, V.width, V.seed, TRUE,
                                         V.height - level)
                   ELSE kept],
    Eager(LAMBDA stepped : SelectSeq(stepped, LAMBDA p : PartKeeps(p, V)),
      Eager(LAMBDA added : PartStep(added, 1, V, dms),
            LET perFrame == Max(PartScale, (fillRate * 3) \div 10)
                extra == IF (PartDraw(V.seed, Len(V.particles), 0) * PartScale)
                              \div 100 < perFrame % PartScale
                         THEN 1 ELSE 0
            IN  IF ~V.isDraining /\ ~V.whirlpoolActive
                THEN PartAddParticles(V.particles,
                                      perFrame \div PartScale + extra,
                                      V.width, V.seed, FALSE, 0)
                ELSE V.particles)))

\* startDraining()
PartStartDraining(V) ==
  [V EXCEPT !.isDraining = TRUE,
            !.whirlpoolActive = TRUE,
            !.whirlpoolCenter = [x |-> V.width \div 2,
                                 y |-> V.height - 50 * PartScale],
            !.whirlpoolStrength = PartScale \div 2]

\* complete(), lines 574-586: one call of drainAnimation, which passes 16 ms
\* to update
PartDrainAnimation(V) ==
  IF V.currentFillHeight > 0 \/ Len(V.particles) > 0
  THEN Eager(LAMBDA W : [PartUpdate(W, 16, 0)
                           EXCEPT !.callback = "drainAnimation"],
             [V EXCEPT !.currentFillHeight =
                         Max(0, V.currentFillHeight - 8 * PartScale),
                       !.whirlpoolStrength =
                         Min(V.whirlpoolStrength + PartScale \div 50,
                             3 * PartScale)])
  ELSE [V EXCEPT !.whirlpoolActive = FALSE, !.isDraining = FALSE,
                 !.wakeLock = FALSE, !.callback = "none"]

\* animate(), deltaTime ms after the call before it; when the time is up,
\* complete(): startDraining and the first call of drainAnimation
PartAnimate(V, deltaTime) ==
  IF ~V.isRunning THEN [V EXCEPT !.callback = "none"]
  ELSE IF V.remainingMs - deltaTime <= 0
  THEN Eager(LAMBDA W : PartDrainAnimation(W),
             PartStartDraining([V EXCEPT !.isRunning = FALSE,
                                         !.remainingMs = 0]))
  ELSE Eager(LAMBDA W : [PartUpdate(W, deltaTime,
                                    V.targetFillHeight \div V.totalSeconds)
                           EXCEPT !.callback = "animate"],
             [V EXCEPT !.remainingMs = V.remainingMs - deltaTime])

\* a click on the start button: start() up to its await
PartStart(total, seed, kick) ==
  /\ variant.op = "construct"
  /\ variant' = [variant EXCEPT !.totalSeconds = total,
                                !.remainingMs = total * 1000,
                                !.isRunning = TRUE,
                                !.targetFillHeight = variant.height,
                                !.currentFillHeight = 0,
                                !.particles = << >>,
                                !.awaiting = TRUE,
                                !.seed = seed, !.kick = kick,
                                !.op = "start"]
  /\ UNCHANGED << simVars, lastOp, pre, hist, tock, nConfig, nTicks, ctl >>

\* the wake-lock request settles: start() from its await to its end
PartWakeLockSettles(granted) ==
  /\ variant.awaiting
  /\ \E V \in { PartAnimate([variant EXCEPT !.awaiting = FALSE,
                                            !.wakeLock = granted], 0) } :
       variant' = [V EXCEPT !.op = "granted"]
  /\ UNCHANGED << simVars, lastOp, pre, hist, tock, nConfig, nTicks, ctl >>

\* an animation frame runs animate(): 16 ms after the call before it, for a
\* bounded number of frames, or after a pause of the page that outlasts the
\* timer
PartAnimateFrame(long) ==
  /\ variant.callback = "animate"
  /\ long \/ variant.frames < MaxPartFillFrames
  /\ \E V \in { PartAnimate(variant, IF long THEN variant.remainingMs
                                     ELSE 16) } :
       variant' = [V EXCEPT !.op = "animate", !.frames = variant.frames + 1]
  /\ UNCHANGED << simVars, lastOp, pre, hist, tock, nConfig, nTicks, ctl >>

\* an animation frame runs drainAnimation()
PartDrainFrame ==
  /\ variant.callback = "drainAnimation"
  /\ \E V \in { PartDrainAnimation(variant) } :
       variant' = [V EXCEPT !.op = "drainAnimation"]
  /\ tock' = ~tock
  /\ UNCHANGED << simVars, lastOp, pre, hist, nConfig, nTicks, ctl >>

PartInit == \E s \in PartInputs.scenes : Constructed(s.w, s.ht)

PartNext ==
  \/ \E total \in PartInputs.totals, seed \in PartInputs.seeds,
        kick \in PartInputs.kicks :
       PartStart(total, seed, kick)
  \/ \E granted \in BOOLEAN : PartWakeLockSettles(granted)
  \/ \E long \in BOOLEAN : PartAnimateFrame(long)
  \/ PartDrainFrame

\* requestAnimationFrame keeps calling drainAnimation back for as long as
\* it asks for it
PartSpec ==
  /\ PartInit
  /\ [][PartNext]_vars
  /\ WF_tock(variant.callback = "drainAnimation" /\ tock' = ~tock)

\* ------------------------------------------------------------ claims
\* the volume of the droplets in flight
InFlightVolume == SumVol(droplets, 1, Len(droplets))

\* C1: in every state in which the simulation is not draining,
\* 0 <= waterVolume <= targetVolume.
C1_VolumeWithinTarget ==
  ~isDraining => (0 <= waterVolume /\ waterVolume <= targetVolume)

\* C2: an update made while the simulation is not draining never leaves
\* waterVolume below what it was before the call.
C2_MonotonicFill ==
  (lastOp = "update" /\ ~pre.draining) => waterVolume >= pre.vol

\* C3: once the updates made since startDraining() have advanced the drain
\* duration (2.2 s of clamped dt), waterVolume is 0, both drain flags are
\* false and no droplet is left.
C3_DrainCompletion ==
  hist.drainMs >= DrainDurationMs
    => /\ waterVolume = 0
       /\ ~isDraining
       /\ ~whirlpoolActive
       /\ droplets = << >>

\* C4: whatever the volume and the droplets in flight when startDraining()
\* is called, repeated updates eventually empty the reservoir and end the
\* drain.
C4_DrainTerminates == isDraining ~> (~isDraining /\ waterVolume = 0)

\* C5: with a fixed emission rate, no drain, no resize, no spawn refused at
\* the cap and the target not reached, the reservoir plus the droplets in
\* flight hold all the volume spawned, the number of droplets spawned is
\* within one of dropsPerSecond * T, and the reservoir is within the target.
C5_VolumeConservation ==
  ( /\ lastOp = "update"
    /\ volumePerSecond > 0
    /\ hist.skipped = 0
    /\ targetVolume > 0
    /\ waterVolume < targetVolume )
    => /\ waterVolume + InFlightVolume = hist.spawned
       /\ Abs(hist.count * 1000 - dropsPerSecond * hist.emitMs) <= 1000
       /\ waterVolume <= targetVolume

C7_ResetIdempotent ==
  [][(lastOp = "reset" /\ lastOp' = "reset") => simVars' = simVars]_vars
\* two resets in a row
C7_Witness == lastOp = "reset" /\ pre.prev = "reset"

\* C8: after reset() there are no droplets, waterVolume and the spawn
\* accumulator are 0, every height and velocity sample is 0, both drain flags
\* are false, and whirlpoolStrength and drainRate are 0.
C8_ResetClears ==
  lastOp = "reset"
    => /\ droplets = << >>
       /\ waterVolume = 0
       /\ dropSpawnAccumulator = 0
       /\ \A i \in 1..Len(h) : h[i] = 0
       /\ \A i \in 1..Len(v) : v[i] = 0
       /\ ~isDraining
       /\ ~whirlpoolActive
       /\ whirlpoolStrength = 0
       /\ drainRate = 0
\* a reset made mid-drain, with water in the reservoir and droplets in flight
C8_Witness ==
  /\ lastOp = "reset"
  /\ pre.draining
  /\ pre.vol > 0
  /\ pre.count > 0

\* C9: after every update and every resize, every droplet's x is in
\* [0, width].
C9_DropletsInScene ==
  lastOp \in { "update", "resize" }
    => \A i \in 1..Len(droplets) :
         0 <= droplets[i].x /\ droplets[i].x <= width * PosScale

\* C10: the height and velocity arrays both have surfaceN samples.
C10_FieldLengths == Len(h) = surfaceN /\ Len(v) = surfaceN
\* a field that is not flat, resampled to another sample count
C10_Witness ==
  /\ lastOp = "resize"
  /\ pre.n # surfaceN
  /\ \E i \in 1..Len(h) : h[i] # 0

\* C11: the timestep of every update is within [0, 0.05] s: update(d) with
\* d > 0.05 does what update(0.05) does, update(d) with d < 0 what update(0)
\* does, and update(d) with d in between uses d itself.
C11_TimestepClamped ==
  \A d \in ClampInputs :
    LET r == Updated(d, ClampEnv)
        c == IF d > 50 THEN 50 ELSE IF d < 0 THEN 0 ELSE d
    IN  /\ r.pre.dt >= 0
        /\ r.pre.dt <= 50
        /\ r.pre.dt = c
        /\ r = Updated(c, ClampEnv)
\* a draining simulation with droplets in flight and a field in motion, from
\* which a 120 ms frame withdraws, moves and spawns what a 50 ms frame does
C11_Witness ==
  /\ lastOp = "update"
  /\ isDraining
  /\ drainRate > 0
  /\ Len(droplets) > 0
  /\ \E i \in 1..Len(v) : v[i] # 0
  /\ Updated(120, ClampEnv).waterVolume # Updated(30, ClampEnv).waterVolume
  /\ Updated(120, ClampEnv).waterVolume = Updated(50, ClampEnv).waterVolume

\* C12: an update that starts with the drain active (isDraining or
\* whirlpoolActive) spawns nothing: the droplet count does not go up and the
\* spawn accumulator stays as it was.
C12_NoSpawnWhileDraining ==
  [][((isDraining \/ whirlpoolActive) /\ lastOp' = "update")
       => /\ Len(droplets') <= Len(droplets)
          /\ dropSpawnAccumulator' = dropSpawnAccumulator
          /\ pre'.requests = 0]_vars
\* an update of a draining simulation whose emission rate is positive
C12_Witness ==
  /\ lastOp = "update"
  /\ pre.draining
  /\ volumePerSecond > 0
  /\ pre.count > 0

\* C13: across an update that starts while draining, waterVolume does not
\* go up and does not go below 0.
C13_DrainMonotonic ==
  (lastOp = "update" /\ pre.draining)
    => (waterVolume <= pre.vol /\ waterVolume >= 0)

\* C14: getWaterHeight() is min(targetFillHeight, waterVolume / width) when
\* width > 0 (so it is 0 when targetFillHeight is 0) and 0 when width is 0.
C14_WaterHeight ==
  GetWaterHeight(width, height, targetFillHeight, waterVolume)
    = IF width > 0
      THEN Min(targetFillHeight * PosScale,
               waterVolume \div (width * (VolScale \div PosScale)))
      ELSE 0

\* C15: with a target height >= 0, targetVolume is width * targetFillHeight,
\* after setTargetFillHeight and after a resize to another width alike.
C15_TargetVolume ==
  targetFillHeight >= 0
    => targetVolume = width * targetFillHeight * VolScale
\* a resize to another sample count, so to another width, with a target set
C15_Witness ==
  /\ lastOp = "resize"
  /\ pre.n # surfaceN
  /\ targetFillHeight > 0
  /\ targetVolume > 0

\* C16 as stated: after resizes, the sample count is max(96, floor(width/3)),
\* the end samples are those of the field the run started from, every sample
\* lies between that field's minimum and maximum, and a constant or
\* linear-ramp field that is back at its sample count is the field it was.
C16_ResampleExact ==
  lastOp = "resize"
    => /\ surfaceN = Max(96, width \div 3)
       /\ Len(h) = surfaceN
       /\ h[1] = hist.orig[1]
       /\ h[surfaceN] = hist.orig[Len(hist.orig)]
       /\ \A i \in 1..surfaceN :
            /\ h[i] >= FieldMin(hist.orig, 1, Len(hist.orig))
            /\ h[i] <= FieldMax(hist.orig, 1, Len(hist.orig))
       /\ (surfaceN = Len(hist.orig) /\ IsRamp(hist.orig)) => h = hist.orig

\* C16: after k resizes, the sample count is max(96, floor(width/3)), the end
\* samples are exactly those of the field the run started from, every sample
\* lies between that field's minimum and maximum to within k rounding units,
\* and a constant or linear-ramp field that is back at its sample count is
\* the field it was to within k rounding units (one per interpolation).
C16_ResamplePreservesShape ==
  lastOp = "resize"
    => /\ surfaceN = Max(96, width \div 3)
       /\ Len(h) = surfaceN
       /\ h[1] = hist.orig[1]
       /\ h[surfaceN] = hist.orig[Len(hist.orig)]
       /\ \A i \in 1..surfaceN :
            /\ h[i] >= FieldMin(hist.orig, 1, Len(hist.orig)) - nConfig
            /\ h[i] <= FieldMax(hist.orig, 1, Len(hist.orig)) + nConfig
       /\ (surfaceN = Len(hist.orig) /\ IsRamp(hist.orig))
            => \A i \in 1..surfaceN : Abs(h[i] - hist.orig[i]) <= nConfig
\* a ramp that went to another sample count and came back, changed by the
\* rounding of the interpolation
C16_Witness ==
  /\ lastOp = "resize"
  /\ nConfig = 2
  /\ pre.n # surfaceN
  /\ surfaceN = Len(hist.orig)
  /\ IsRamp(hist.orig)
  /\ h # hist.orig

\* C17: an update that takes the simulation out of the drain leaves
\* waterVolume 0 and no droplet, and an update that ends with isDraining
\* true leaves waterVolume > 0 or a droplet in flight.
C17_DrainStopsWhenEmpty ==
  /\ (lastOp = "update" /\ pre.draining /\ ~isDraining)
       => (waterVolume = 0 /\ droplets = << >>)
  /\ (lastOp = "update" /\ isDraining)
       => (waterVolume > 0 \/ Len(droplets) > 0)
\* the last update of a drain that still had water to withdraw
C17_Witness ==
  /\ lastOp = "update"
  /\ pre.draining
  /\ ~isDraining
  /\ pre.vol > 0

\* C18: in an update made while draining, every droplet that lands adds its
\* full volume to waterVolume: no impact is cut by the clamp to
\* targetVolume.
C18_NoClampWhileDraining ==
  (lastOp = "update" /\ pre.draining /\ pre.landed > 0) => pre.clamped = 0

\* C19: within an update the droplets land before the drain withdraws: the
\* volume a draining update leaves is what the withdrawal takes from the
\* volume it started with plus the volume landed (clamped to the target).
C19_LandBeforeWithdraw ==
  ( /\ lastOp = "update"
    /\ pre.draining
    /\ isDraining
    /\ drainRate > 0
    /\ targetFillHeight <= height )
    => waterVolume
         = Withdraw(AddVolume(pre.vol, pre.landedVol, targetVolume),
                    drainRate, pre.dt)

\* C20: an update made while not draining with a positive emission rate adds
\* dropsPerSecond * dt to the spawn accumulator, requests as many droplets
\* as the accumulator's whole part, at most 13, and takes that count off the
\* accumulator, which it leaves in [0, 1).
C20_SpawnAccounting ==
  [][(lastOp' = "update" /\ ~isDraining /\ ~whirlpoolActive
        /\ volumePerSecond > 0)
       => LET gained == dropSpawnAccumulator + 260 * pre'.dt
          IN  /\ pre'.requests = gained \div 1000
              /\ pre'.requests <= 13
              /\ dropSpawnAccumulator' = gained - 1000 * pre'.requests
              /\ dropSpawnAccumulator' >= 0
              /\ dropSpawnAccumulator' < 1000]_vars
\* an update that found a fraction in the accumulator, requested droplets
\* and left another fraction
C20_Witness ==
  /\ lastOp = "update"
  /\ ~pre.draining
  /\ volumePerSecond > 0
  /\ pre.requests > 0
  /\ dropSpawnAccumulator > 0
  /\ hist.count > pre.requests

C22_DiscardIsInert ==
  [][lastOp' = "update"
       => LET dt == pre'.dt
              withdrawing == isDraining /\ drainRate > 0
              vol1 == IF withdrawing THEN Withdraw(waterVolume, drainRate, dt)
                      ELSE waterVolume
              str1 == IF withdrawing
                      THEN Min(strengthCap, whirlpoolStrength + strengthRampPerMs * dt)
                      ELSE whirlpoolStrength
              v2 == IF whirlpoolActive
                    THEN ApplySink(v, whirlpoolCenter.x, str1, dt, width, surfaceN)
                    ELSE v
              fld == StepSurface(h, v2, surfaceN, width, dt)
          IN  /\ (pre'.discarded > 0 /\ pre'.landed = 0)
                   => /\ waterVolume'
                          = IF GetBaseSurfaceY(width, height, targetFillHeight, vol1) < 0
                            THEN width * height * VolScale ELSE vol1
                      /\ h' = fld.h
                      /\ v' = fld.v
                      /\ Len(droplets') = pre'.inFlight - pre'.discarded
              /\ (width > 0 /\ \A i \in 1..Len(h) :
                                  IsNum(h[i]) /\ Abs(h[i]) < 120 * PosScale)
                   => pre'.discarded = 0]_vars
\* an update that discarded droplets while none landed
C22_Witness ==
  /\ lastOp = "update"
  /\ pre.discarded > 0
  /\ pre.landed = 0
  /\ pre.discardedVol > 0

C25_StrengthRamps ==
  [][/\ isDraining' => /\ 10 * whirlpoolStrength' >= 6 * StrScale
                        /\ 10 * whirlpoolStrength' <= 35 * StrScale
     /\ (lastOp' = "update" /\ isDraining /\ isDraining' /\ pre'.dt > 0)
          => /\ whirlpoolStrength' >= whirlpoolStrength
             /\ (10 * whirlpoolStrength < 35 * StrScale
                   => whirlpoolStrength' > whirlpoolStrength)]_vars

\* the samples nearest to x, sample i lying at i * width / (surfaceN - 1)
NearestSamples(x, w, n) ==
  { j \in 0..(n - 1) :
      \A i \in 0..(n - 1) :
        Abs(x * (n - 1) - j * w * PosScale) <= Abs(x * (n - 1) - i * w * PosScale) }

\* C26: addRippleImpulse(x, strength) with x in [0, width] adds the strength
\* to the velocity of a sample nearest to x, 0.75, 0.45 and 0.20 of it to the
\* samples 1, 2 and 3 indices away on each side that exist, and changes no
\* other velocity, no height sample and no array length.
C26_RippleAtNearest ==
  [][lastOp' = "addRippleImpulse"
       => /\ h' = h
          /\ Len(v') = Len(v)
          /\ surfaceN' = surfaceN
          /\ \E near \in NearestSamples(hist'.x, width, surfaceN) :
               \A j \in 1..Len(v) :
                 LET k == Abs((j - 1) - near)
                 IN  v'[j] = v[j] + (IF k = 0 THEN hist'.s
                                     ELSE IF k = 1 THEN (hist'.s * 75) \div 100
                                     ELSE IF k = 2 THEN (hist'.s * 45) \div 100
                                     ELSE IF k = 3 THEN (hist'.s * 20) \div 100
                                     ELSE 0)]_vars

\* C27: the state an update leaves is a function of the state it starts
\* from, of dt and of the random draws: whatever performance.now() reads
\* during the call, the same stream position, droplets, accumulator, volume,
\* field and drain state result.
C27_UpdateIgnoresWallClock ==
  [][lastOp' = "update"
       => \A wob \in Wobbles :
            LET r == Updated(pre'.dt, [FillEnv EXCEPT !.wob = wob])
            IN  /\ r.streamX = streamX'
                /\ r.droplets = droplets'
                /\ r.dropSpawnAccumulator = dropSpawnAccumulator'
                /\ r.waterVolume = waterVolume'
                /\ r.h = h'
                /\ r.v = v'
                /\ r.isDraining = isDraining'
                /\ r.whirlpoolStrength = whirlpoolStrength'
                /\ r.drainRate = drainRate']_vars

\* C28: the callbacks of one animation frame call update at most once
\* between them: a single frame loop drives the simulation.
C28_OneUpdatePerFrame == ctl.tickUpdates <= 1

\* C29: from reset() until the next start() that starts a timer, whatever
\* runs (a frame callback of either loop, the end of a start() that was
\* waiting for the wake lock, a click on a button) calls no update.
C29_NoUpdateAfterReset ==
  [][(ctl.afterReset /\ ctl'.afterReset) => tock' = tock]_vars
\* after a reset, a start() that had been waiting for the wake lock ran to
\* its end, or a callback of the drain loop ran
C29_Witness ==
  /\ ctl.afterReset
  /\ ctl.op \in { "granted", "drainAnimation" }

\* C30: a frame callback that runs while isPaused is true calls no update
\* and leaves remainingSeconds and the simulation as they were.
C30_PausedFramesAreInert ==
  [][(ctl.isPaused /\ ctl'.op \in { "animate", "drainAnimation" })
       => /\ tock' = tock
          /\ ctl'.remainingMs = ctl.remainingMs
          /\ UNCHANGED simVars]_vars

\* C31: in a scene of width 0 no sample of the surface field is NaN, whatever
\* calls were made.
C31_NoNaNAtWidthZero ==
  width = 0 => \A i \in 1..Len(h) : h[i] # NaNV /\ v[i] # NaNV

\* C32: in every state the two drain flags agree: isDraining is true exactly
\* when whirlpoolActive is.
C32_DrainFlagsAgree == isDraining = whirlpoolActive
\* an update that left the drain active
C32_Witness ==
  /\ lastOp = "update"
  /\ isDraining /\ whirlpoolActive
  /\ pre.draining

\* C33: in every state in which the simulation is not draining, the
\* whirlpool strength and the drain rate are 0.
C33_IdleCarriesNoResidue ==
  ~isDraining => (whirlpoolStrength = 0 /\ drainRate = 0)
\* an update or a reset that ended a drain
C33_Witness ==
  /\ ~isDraining
  /\ pre.draining
  /\ lastOp \in { "update", "reset" }
  /\ whirlpoolStrength = 0

\* C34: no droplet stays in flight forever.  An update with dt > 0 moves
\* every droplet that stays in the list further down, no droplet of the list
\* is more than 120 px below the scene, and once the drain is active (no
\* droplet is spawned any more) the list becomes empty.
C34_DropletsLeave ==
  /\ [][(lastOp' = "update" /\ pre'.dt > 0)
          => /\ \A i \in 1..Len(droplets) :
                  \A j \in 1..Len(droplets') :
                    droplets'[j] = MoveDroplet(droplets[i], pre'.dt, width)
                      => droplets'[j].y > droplets[i].y
             /\ \A j \in 1..Len(droplets') :
                  /\ droplets'[j].y > droplets'[j].py
                  /\ droplets'[j].y <= (height + 120) * PosScale]_vars
  /\ ((isDraining /\ Len(droplets) > 0) ~> (Len(droplets) = 0))
\* an update of an active drain after which the last droplets in flight are
\* gone
C34_Witness ==
  /\ lastOp = "update"
  /\ pre.draining
  /\ pre.inFlight > 0
  /\ Len(droplets) = 0

\* C35: whenever the timer is not running, no completion drain is in
\* progress and no start() call is suspended at its wake-lock request, the
\* controller holds no wake lock.
C35_IdleHoldsNoWakeLock ==
  (/\ ~ctl.isRunning
   /\ ~(isDraining \/ whirlpoolActive)
   /\ ctl.awaiting = 0)
    => ~ctl.wakeLock

\* C36: complete() starts the drain once for a run, and the completion drain
\* loop eventually stops: unless reset() intervenes, the simulation becomes
\* idle, no frame is requested any more and the wake lock is released.
C36_CompletionDrainStops ==
  /\ [][(ctl.isRunning /\ ~ctl'.isRunning /\ ctl'.op # "reset")
          => (~ctl.overlay /\ ctl'.overlay)]_vars
  /\ (ctl.overlay
        ~> (\/ ~ctl.overlay
            \/ (/\ ~isDraining /\ ~whirlpoolActive
                /\ ctl.pending = << >> /\ ctl.due = << >>
                /\ ~ctl.wakeLock)))

\* C37: a start() with a total duration <= 0 starts nothing: isRunning,
\* isPaused and the remaining time are unchanged, the simulation is left as
\* it is, no wake lock is requested and no animation frame is scheduled.
C37_RejectedStartIsInert ==
  [][(ctl'.op = "start" /\ ctl'.clicks # ctl.clicks /\ ctl'.totalSeconds <= 0)
      => /\ ctl'.isRunning = ctl.isRunning
         /\ ctl'.isPaused = ctl.isPaused
         /\ ctl'.remainingMs = ctl.remainingMs
         /\ ctl'.awaiting = ctl.awaiting
         /\ ctl'.wakeLock = ctl.wakeLock
         /\ ctl'.pending = ctl.pending
         /\ ctl'.due = ctl.due
         /\ ctl'.intervalId = ctl.intervalId
         /\ ctl'.startShown = ctl.startShown
         /\ ctl'.timerShown = ctl.timerShown
         /\ UNCHANGED << simVars, lastOp, tock >>]_vars
\* a start() refused after a reset(), while the wake-lock request of the run
\* before is still pending
C37_Witness ==
  /\ ctl.op = "start"
  /\ ctl.totalSeconds <= 0
  /\ ctl.afterReset
  /\ ctl.awaiting > 0

C39_ParticleDrainTerminates ==
  variant.isDraining
    ~> (/\ variant.currentFillHeight = 0
        /\ variant.particles = << >>
        /\ ~variant.whirlpoolActive
        /\ ~variant.isDraining
        /\ ~variant.wakeLock)

====
